---- MODULE Spec2Model ----
(***************************************************************************)
(* A model of the theoremc schema front end: identifier validation, the    *)
(* validated newtypes, strict deserialization of theorem documents, the    *)
(* post-deserialization validator and the loader.                          *)
(*                                                                         *)
(* Strings are sequences of one-character strings, so that trimming,       *)
(* pattern matching and keyword lookup are computed as the code computes   *)
(* them.  Fixed messages are kept as whole strings.                        *)
(***************************************************************************)
EXTENDS Integers, Sequences, FiniteSets, TLC

VARIABLES
    ident,          \* the argument of a validate_identifier call
    ident_result,   \* what that call returned
    newtype,        \* a TheoremName or ForallVar value, from its construction on
    out,            \* what the last constructor or accessor of a newtype returned
    input,          \* the text given to load_theorem_docs: a sequence of YAML documents
    result,         \* what load_theorem_docs returned
    doc,            \* a deserialized TheoremDoc handed to validate_theorem_doc
    vresult,        \* what validate_theorem_doc returned
    input2,         \* the text of a second, independent load_theorem_docs call
    result2,        \* what the second call returned
    call,           \* a call of one of the other functions: its name and its argument
    ret,            \* what that call returned
    threads,        \* the load_theorem_docs calls in progress, each with its locals
    keywords        \* the reserved-word table, the one datum the calls share

vars ==
    <<ident, ident_result, newtype, out, input, result, doc, vresult, input2, result2, call, ret,
      threads, keywords>>

identVars == <<ident, ident_result>>
nameVars == <<newtype, out>>
loadVars == <<input, result, doc, vresult, input2, result2>>
callVars == <<call, ret>>
parVars == <<threads, keywords>>

\* The value of a variable that holds nothing yet.
Idle == [idle |-> TRUE]

\* Option<T>
None == [some |-> FALSE]
Some(v) == [some |-> TRUE, v |-> v]

\* Result<T, E>
Ok(v) == [ok |-> TRUE, val |-> v]
Err(e) == [ok |-> FALSE, err |-> e]
Unit == <<>>

(***************************************************************************)
(* Bounds of the model.                                                    *)
(***************************************************************************)
MaxLen == 3
MaxDefects == 2
MaxDocs == 2
\* The width of the integers of a value: i64 and u64 scaled to IntBits bits.
IntBits == 8
\* The longest Prove and Witness lists of the documents for the field rules.
MaxLists == 2

(***************************************************************************)
(* Characters.                                                             *)
(***************************************************************************)
LowerChars == {"a","b","c","d","e","f","g","h","i","j","k","l","m",
               "n","o","p","q","r","s","t","u","v","w","x","y","z"}
UpperChars == {"A","B","C","D","E","F","G","H","I","J","K","L","M",
               "N","O","P","Q","R","S","T","U","V","W","X","Y","Z"}
DigitChars == {"0","1","2","3","4","5","6","7","8","9"}
WhiteChars == {" ", "\t", "\n"}

is_ascii_alphabetic(c) == c \in LowerChars \cup UpperChars
is_ascii_alphanumeric(c) == is_ascii_alphabetic(c) \/ c \in DigitChars

(***************************************************************************)
(* identifier.rs                                                           *)
(***************************************************************************)
RUST_KEYWORDS == {
    <<"a","s">>, <<"a","s","y","n","c">>, <<"a","w","a","i","t">>, <<"b","r","e","a","k">>,
    <<"c","o","n","s","t">>, <<"c","o","n","t","i","n","u","e">>, <<"c","r","a","t","e">>,
    <<"d","y","n">>, <<"e","l","s","e">>, <<"e","n","u","m">>, <<"e","x","t","e","r","n">>,
    <<"f","a","l","s","e">>, <<"f","n">>, <<"f","o","r">>, <<"i","f">>, <<"i","m","p","l">>,
    <<"i","n">>, <<"l","e","t">>, <<"l","o","o","p">>, <<"m","a","t","c","h">>,
    <<"m","o","d">>, <<"m","o","v","e">>, <<"m","u","t">>, <<"p","u","b">>, <<"r","e","f">>,
    <<"r","e","t","u","r","n">>, <<"s","e","l","f">>, <<"S","e","l","f">>,
    <<"s","t","a","t","i","c">>, <<"s","t","r","u","c","t">>, <<"s","u","p","e","r">>,
    <<"t","r","a","i","t">>, <<"t","r","u","e">>, <<"t","y","p","e">>,
    <<"u","n","s","a","f","e">>, <<"u","s","e">>, <<"w","h","e","r","e">>,
    <<"w","h","i","l","e">>, <<"a","b","s","t","r","a","c","t">>, <<"b","e","c","o","m","e">>,
    <<"b","o","x">>, <<"d","o">>, <<"f","i","n","a","l">>, <<"m","a","c","r","o">>,
    <<"o","v","e","r","r","i","d","e">>, <<"p","r","i","v">>, <<"t","r","y">>,
    <<"t","y","p","e","o","f">>, <<"u","n","s","i","z","e","d">>,
    <<"v","i","r","t","u","a","l">>, <<"y","i","e","l","d">>, <<"g","e","n">>,
    <<"u","n","i","o","n">>
}

REASON_EMPTY == "identifier must not be empty"
REASON_PATTERN == "must match the pattern ^[A-Za-z_][A-Za-z0-9_]*$ (ASCII letters, digits, and underscores; must not start with a digit)"
REASON_KEYWORD == "this is a Rust reserved keyword and cannot be used as a theorem identifier"

InvalidIdentifier(s, reason) ==
    [kind |-> "InvalidIdentifier", identifier |-> s, reason |-> reason]

is_valid_identifier_pattern(s) ==
    IF Len(s) = 0 THEN FALSE
    ELSE IF ~is_ascii_alphabetic(s[1]) /\ s[1] # "_" THEN FALSE
    ELSE \A i \in 2..Len(s) : is_ascii_alphanumeric(s[i]) \/ s[i] = "_"

\* A lookup that also matches a keyword at the start of the string.
is_rust_keyword_by_prefix(s) ==
    \E k \in RUST_KEYWORDS : Len(k) <= Len(s) /\ SubSeq(s, 1, Len(k)) = k

is_rust_keyword(s) == s \in RUST_KEYWORDS

\* A validator without the separate empty-string check.
validate_identifier_without_empty_check(s) ==
    IF ~is_valid_identifier_pattern(s) THEN Err(InvalidIdentifier(s, REASON_PATTERN))
    ELSE IF is_rust_keyword(s) THEN Err(InvalidIdentifier(s, REASON_KEYWORD))
    ELSE Ok(Unit)

validate_identifier(s) ==
    IF Len(s) = 0 THEN Err(InvalidIdentifier(s, REASON_EMPTY))
    ELSE IF ~is_valid_identifier_pattern(s) THEN Err(InvalidIdentifier(s, REASON_PATTERN))
    ELSE IF is_rust_keyword(s) THEN Err(InvalidIdentifier(s, REASON_KEYWORD))
    ELSE Ok(Unit)

(***************************************************************************)
(* newtypes.rs: TheoremName and ForallVar wrap a validated string.         *)
(***************************************************************************)
Display_SchemaError(e) ==
    <<"invalid identifier '">> \o e.identifier \o <<"': ", e.reason>>

TheoremName_new(s) ==
    LET r == validate_identifier(s)
    IN  IF r.ok THEN Ok([ty |-> "TheoremName", s |-> s]) ELSE r

ForallVar_new(s) ==
    LET r == validate_identifier(s)
    IN  IF r.ok THEN Ok([ty |-> "ForallVar", s |-> s]) ELSE r

\* impl Deserialize: String::deserialize, then validate_identifier, the error
\* turned into a deserializer error by de::Error::custom (its Display text).
\* A deserializer that wraps the string without validating it.
TheoremName_deserialize_unchecked(node) ==
    IF node.t # "str" THEN Err(<<"invalid type: expected a string">>)
    ELSE Ok([ty |-> "TheoremName", s |-> node.s])

TheoremName_deserialize(node) ==
    IF node.t # "str" THEN Err(<<"invalid type: expected a string">>)
    ELSE LET r == validate_identifier(node.s)
         IN  IF r.ok THEN Ok([ty |-> "TheoremName", s |-> node.s])
             ELSE Err(Display_SchemaError(r.err))

\* A deserializer that wraps the string without validating it.
ForallVar_deserialize_unchecked(node) ==
    IF node.t # "str" THEN Err(<<"invalid type: expected a string">>)
    ELSE Ok([ty |-> "ForallVar", s |-> node.s])

ForallVar_deserialize(node) ==
    IF node.t # "str" THEN Err(<<"invalid type: expected a string">>)
    ELSE LET r == validate_identifier(node.s)
         IN  IF r.ok THEN Ok([ty |-> "ForallVar", s |-> node.s])
             ELSE Err(Display_SchemaError(r.err))

\* as_str, as_ref, borrow and Display hand out the wrapped string; Clone
\* copies the value.  All take &self.
as_str(self) == self.s
clone(self) == self

(***************************************************************************)
(* YAML documents as the deserializer sees them.  A mapping is the         *)
(* sequence of its entries in source order.                                *)
(***************************************************************************)
YStr(s) == [t |-> "str", s |-> s]
YInt(n) == [t |-> "int", n |-> n]
YBool(b) == [t |-> "bool", b |-> b]
YNull == [t |-> "null"]
YSeq(items) == [t |-> "seq", items |-> items]
YMap(entries) == [t |-> "map", entries |-> entries]
KV(k, v) == [k |-> k, v |-> v]

Range(f) == {f[i] : i \in DOMAIN f}

(***************************************************************************)
(* Source positions.  A text is laid out in block style: one mapping entry *)
(* or sequence item per line, a scalar or an empty collection on the line  *)
(* of its key, a nested block on the following lines two columns further   *)
(* in, and a line of three dashes between two documents.  Lines and        *)
(* columns count from 1, as serde_saphyr::Location does; a column is       *)
(* counted in steps of indentation, a value on the line of its key being   *)
(* one step to the right of the key.                                       *)
(***************************************************************************)
Location(line, column) == [line |-> line, column |-> column]

Inline(node) ==
    \/ node.t \notin {"map", "seq"}
    \/ node.t = "map" /\ node.entries = <<>>
    \/ node.t = "seq" /\ node.items = <<>>

RECURSIVE Height(_)
RECURSIVE HeightOfFirst(_, _)
\* The number of lines of a node laid out as a block.
Height(node) ==
    IF Inline(node) THEN 1
    ELSE IF node.t = "map" THEN HeightOfFirst(node, Len(node.entries))
    ELSE HeightOfFirst(node, Len(node.items))

\* The number of lines of the first n entries or items of a block.
HeightOfFirst(node, n) ==
    IF n = 0 THEN 0
    ELSE IF node.t = "seq" THEN HeightOfFirst(node, n - 1) + Height(node.items[n])
    ELSE IF Inline(node.entries[n].v) THEN HeightOfFirst(node, n - 1) + 1
    ELSE HeightOfFirst(node, n - 1) + 1 + Height(node.entries[n].v)

RECURSIVE Place(_, _, _)
\* The node with the position of every node below it: `at` is where the
\* node's first character stands.
Place(node, line, column) ==
    IF Inline(node) THEN ("at" :> Location(line, column)) @@ node
    ELSE IF node.t = "map"
    THEN [t |-> "map", at |-> Location(line, column),
          entries |->
              [i \in DOMAIN node.entries |->
                  KV(node.entries[i].k,
                     IF Inline(node.entries[i].v)
                     THEN Place(node.entries[i].v, line + HeightOfFirst(node, i - 1), column + 2)
                     ELSE Place(node.entries[i].v, line + HeightOfFirst(node, i - 1) + 1,
                                column + 2))]]
    ELSE [t |-> "seq", at |-> Location(line, column),
          items |->
              [i \in DOMAIN node.items |->
                  Place(node.items[i], line + HeightOfFirst(node, i - 1), column + 2)]]

RECURSIVE LinesOfFirst(_, _)
\* The number of lines of the first n documents of a text, each followed by
\* the line that separates it from the next.
LinesOfFirst(text, n) ==
    IF n = 0 THEN 0 ELSE LinesOfFirst(text, n - 1) + Height(text[n]) + 1

\* The documents of a text, each placed after the ones before it.
PlaceDocuments(text) ==
    [i \in DOMAIN text |-> Place(text[i], 1 + LinesOfFirst(text, i - 1), 1)]

(***************************************************************************)
(* types.rs: the shape of every struct and enum, as its serde attributes   *)
(* state it.                                                               *)
(***************************************************************************)
TString == [k |-> "String"]
TU32 == [k |-> "u32"]
TBool == [k |-> "bool"]
TOption(ty) == [k |-> "Option", of |-> ty]
TVec(name) == [k |-> "Vec", of |-> name]
TIndexMap(key, val) == [k |-> "IndexMap", key |-> key, val |-> val]
TStruct(name) == [k |-> "struct", name |-> name]
TEnum(name) == [k |-> "untagged", name |-> name]
TNamed(name) == [k |-> name]
TSpanned(ty) == [k |-> "Spanned", of |-> ty]

\* One field of a struct: its Rust name, its serde key (rename), its alias, its
\* type, and whether it is #[serde(default)].
Field(field, key, alias, ty, default) ==
    [field |-> field, key |-> key, alias |-> alias, ty |-> ty, default |-> default]

\* The same fields, Prove without its lowercase alias.
TheoremDoc_without_prove_alias ==
    << Field("schema", "Schema", {"schema"}, TOption(TU32), TRUE),
       Field("theorem", "Theorem", {"theorem"}, TNamed("TheoremName"), FALSE),
       Field("about", "About", {"about"}, TString, FALSE),
       Field("tags", "Tags", {"tags"}, TVec(TString), TRUE),
       Field("given", "Given", {"given"}, TVec(TString), TRUE),
       Field("forall", "Forall", {"forall"}, TIndexMap(TNamed("ForallVar"), TString), TRUE),
       Field("assume", "Assume", {"assume"}, TVec(TStruct("Assumption")), TRUE),
       Field("witness", "Witness", {"witness"}, TVec(TStruct("WitnessCheck")), TRUE),
       Field("let_bindings", "Let", {"let"}, TIndexMap(TString, TEnum("LetBinding")), TRUE),
       Field("do_steps", "Do", {"do"}, TVec(TEnum("Step")), TRUE),
       Field("prove", "Prove", {}, TVec(TStruct("Assertion")), FALSE),
       Field("evidence", "Evidence", {"evidence"}, TStruct("Evidence"), FALSE) >>

TheoremDoc ==
    << Field("schema", "Schema", {"schema"}, TOption(TU32), TRUE),
       Field("theorem", "Theorem", {"theorem"}, TNamed("TheoremName"), FALSE),
       Field("about", "About", {"about"}, TString, FALSE),
       Field("tags", "Tags", {"tags"}, TVec(TString), TRUE),
       Field("given", "Given", {"given"}, TVec(TString), TRUE),
       Field("forall", "Forall", {"forall"}, TIndexMap(TNamed("ForallVar"), TString), TRUE),
       Field("assume", "Assume", {"assume"}, TVec(TStruct("Assumption")), TRUE),
       Field("witness", "Witness", {"witness"}, TVec(TStruct("WitnessCheck")), TRUE),
       Field("let_bindings", "Let", {"let"}, TIndexMap(TString, TEnum("LetBinding")), TRUE),
       Field("do_steps", "Do", {"do"}, TVec(TEnum("Step")), TRUE),
       Field("prove", "Prove", {"prove"}, TVec(TStruct("Assertion")), FALSE),
       Field("evidence", "Evidence", {"evidence"}, TStruct("Evidence"), FALSE) >>

Assumption ==
    << Field("expr", "expr", {}, TString, FALSE),
       Field("because", "because", {}, TString, FALSE) >>

Assertion ==
    << Field("assert_expr", "assert", {}, TString, FALSE),
       Field("because", "because", {}, TString, FALSE) >>

WitnessCheck ==
    << Field("cover", "cover", {}, TString, FALSE),
       Field("because", "because", {}, TString, FALSE) >>

\* A third variant, the maybe block of Step.
LetBinding_with_maybe ==
    << [variant |-> "Call", ty |-> TStruct("LetCall")],
       [variant |-> "Must", ty |-> TStruct("LetMust")],
       [variant |-> "Maybe", ty |-> TStruct("StepMaybe")] >>

LetBinding ==
    << [variant |-> "Call", ty |-> TStruct("LetCall")],
       [variant |-> "Must", ty |-> TStruct("LetMust")] >>

Step ==
    << [variant |-> "Call", ty |-> TStruct("StepCall")],
       [variant |-> "Must", ty |-> TStruct("StepMust")],
       [variant |-> "Maybe", ty |-> TStruct("StepMaybe")] >>

\* LetCall and StepCall, LetMust and StepMust have the same single field.
CallWrapper == << Field("call", "call", {}, TStruct("ActionCall"), FALSE) >>
MustWrapper == << Field("must", "must", {}, TStruct("ActionCall"), FALSE) >>
StepMaybe == << Field("maybe", "maybe", {}, TStruct("MaybeBlock"), FALSE) >>

MaybeBlock ==
    << Field("because", "because", {}, TString, FALSE),
       Field("do_steps", "do", {}, TVec(TEnum("Step")), FALSE) >>

ActionCall ==
    << Field("action", "action", {}, TString, FALSE),
       Field("args", "args", {}, TIndexMap(TString, TNamed("TheoremValue")), FALSE),
       Field("as_binding", "as", {}, TOption(TString), TRUE) >>

Evidence ==
    << Field("kani", "kani", {}, TOption(TStruct("KaniEvidence")), TRUE),
       Field("verus", "verus", {}, TOption(TNamed("TheoremValue")), TRUE),
       Field("stateright", "stateright", {}, TOption(TNamed("TheoremValue")), TRUE) >>

KaniEvidence ==
    << Field("unwind", "unwind", {}, TU32, FALSE),
       Field("expect", "expect", {}, TNamed("KaniExpectation"), FALSE),
       Field("allow_vacuous", "allow_vacuous", {}, TBool, TRUE),
       Field("vacuity_because", "vacuity_because", {}, TOption(TString), TRUE) >>

KaniExpectation ==
    { <<"S","U","C","C","E","S","S">>, <<"F","A","I","L","U","R","E">>,
      <<"U","N","R","E","A","C","H","A","B","L","E">>,
      <<"U","N","D","E","T","E","R","M","I","N","E","D">> }

\* raw.rs: the raw types mirror the public ones, with serde_saphyr::Spanned
\* around the fields a diagnostic can point at.
RawTheoremDoc ==
    << Field("schema", "Schema", {"schema"}, TOption(TU32), TRUE),
       Field("theorem", "Theorem", {"theorem"}, TSpanned(TNamed("TheoremName")), FALSE),
       Field("about", "About", {"about"}, TSpanned(TString), FALSE),
       Field("tags", "Tags", {"tags"}, TVec(TString), TRUE),
       Field("given", "Given", {"given"}, TVec(TString), TRUE),
       Field("forall", "Forall", {"forall"}, TIndexMap(TNamed("ForallVar"), TString), TRUE),
       Field("assume", "Assume", {"assume"}, TVec(TStruct("RawAssumption")), TRUE),
       Field("witness", "Witness", {"witness"}, TVec(TStruct("RawWitnessCheck")), TRUE),
       Field("let_bindings", "Let", {"let"}, TIndexMap(TString, TEnum("LetBinding")), TRUE),
       Field("do_steps", "Do", {"do"}, TVec(TEnum("Step")), TRUE),
       Field("prove", "Prove", {"prove"}, TVec(TStruct("RawAssertion")), FALSE),
       Field("evidence", "Evidence", {"evidence"}, TStruct("RawEvidence"), FALSE) >>

RawAssumption ==
    << Field("expr", "expr", {}, TSpanned(TString), FALSE),
       Field("because", "because", {}, TSpanned(TString), FALSE) >>

RawAssertion ==
    << Field("assert_expr", "assert", {}, TSpanned(TString), FALSE),
       Field("because", "because", {}, TSpanned(TString), FALSE) >>

RawWitnessCheck ==
    << Field("cover", "cover", {}, TSpanned(TString), FALSE),
       Field("because", "because", {}, TSpanned(TString), FALSE) >>

RawEvidence ==
    << Field("kani", "kani", {}, TOption(TStruct("RawKaniEvidence")), TRUE),
       Field("verus", "verus", {}, TOption(TNamed("TheoremValue")), TRUE),
       Field("stateright", "stateright", {}, TOption(TNamed("TheoremValue")), TRUE) >>

RawKaniEvidence ==
    << Field("unwind", "unwind", {}, TSpanned(TU32), FALSE),
       Field("expect", "expect", {}, TNamed("KaniExpectation"), FALSE),
       Field("allow_vacuous", "allow_vacuous", {}, TOption(TSpanned(TBool)), TRUE),
       Field("vacuity_because", "vacuity_because", {}, TOption(TSpanned(TString)), TRUE) >>

StructFields(name) ==
    CASE name = "TheoremDoc" -> TheoremDoc
      [] name = "Assumption" -> Assumption
      [] name = "Assertion" -> Assertion
      [] name = "WitnessCheck" -> WitnessCheck
      [] name \in {"LetCall", "StepCall"} -> CallWrapper
      [] name \in {"LetMust", "StepMust"} -> MustWrapper
      [] name = "StepMaybe" -> StepMaybe
      [] name = "MaybeBlock" -> MaybeBlock
      [] name = "ActionCall" -> ActionCall
      [] name = "Evidence" -> Evidence
      [] name = "KaniEvidence" -> KaniEvidence
      [] name = "RawTheoremDoc" -> RawTheoremDoc
      [] name = "RawAssumption" -> RawAssumption
      [] name = "RawAssertion" -> RawAssertion
      [] name = "RawWitnessCheck" -> RawWitnessCheck
      [] name = "RawEvidence" -> RawEvidence
      [] name = "RawKaniEvidence" -> RawKaniEvidence

Variants(name) ==
    CASE name = "LetBinding" -> LetBinding
      [] name = "Step" -> Step

\* The value of a field that the document leaves out: Default::default() for a
\* #[serde(default)] field, None for an Option.
DefaultOf(ty) ==
    CASE ty.k = "Option" -> None
      [] ty.k = "bool" -> FALSE
      [] OTHER -> <<>>

\* IndexMap::insert: a new key is appended, an existing key keeps its position
\* and takes the new value.
IndexMap_insert(m, key, val) ==
    IF \E i \in DOMAIN m : m[i].k = key
    THEN [i \in DOMAIN m |-> IF m[i].k = key THEN KV(key, val) ELSE m[i]]
    ELSE Append(m, KV(key, val))

(***************************************************************************)
(* Deserialization: what the derived and the hand-written Deserialize      *)
(* impls do with a YAML node.  The first error ends it.                    *)
(***************************************************************************)
\* The decimal digits of a number, as Display writes them.
DigitOf(n) == <<"0","1","2","3","4","5","6","7","8","9">>[n + 1]

RECURSIVE usize_to_string(_)
usize_to_string(n) ==
    IF n < 10 THEN <<DigitOf(n)>>
    ELSE usize_to_string(n \div 10) \o <<DigitOf(n % 10)>>

I64_MIN == -(2 ^ (IntBits - 1))
I64_MAX == 2 ^ (IntBits - 1) - 1
U64_MAX == 2 ^ IntBits - 1

\* value.rs: TheoremValueVisitor.
visit_i64(v) == Ok([tv |-> "Integer", v |-> v])

\* The cast `v as i64` in place of i64::try_from.
visit_u64_wrapping(v) ==
    Ok([tv |-> "Integer", v |-> IF v > I64_MAX THEN v - 2 ^ IntBits ELSE v])

visit_u64(v) ==
    IF v <= I64_MAX THEN Ok([tv |-> "Integer", v |-> v])
    ELSE Err(<<"integer ">> \o usize_to_string(v) \o <<" is out of range for i64">>)

RECURSIVE deserialize(_, _)
RECURSIVE deserialize_vec(_, _, _, _)
RECURSIVE deserialize_map(_, _, _, _)
RECURSIVE deserialize_struct(_, _, _, _)
RECURSIVE deserialize_untagged(_, _, _)
RECURSIVE TheoremValue_deserialize(_)
RECURSIVE visit_seq(_, _, _)
RECURSIVE visit_map(_, _, _)
RECURSIVE visit_map_last_wins(_, _, _)

\* deserialize_any: the deserializer hands a negative integer to visit_i64 and
\* any other integer to visit_u64.
TheoremValue_deserialize(node) ==
    CASE node.t = "bool" -> Ok([tv |-> "Bool", v |-> node.b])
      [] node.t = "int" -> IF node.n < 0 THEN visit_i64(node.n) ELSE visit_u64(node.n)
      [] node.t = "str" -> Ok([tv |-> "String", v |-> node.s])
      [] node.t = "null" -> Err(<<"null values are not permitted in theorem documents">>)
      [] node.t = "seq" -> visit_seq(node.items, 1, <<>>)
      [] node.t = "map" -> visit_map(node.entries, 1, <<>>)

visit_seq(items, i, acc) ==
    IF i > Len(items) THEN Ok([tv |-> "Sequence", v |-> acc])
    ELSE LET r == TheoremValue_deserialize(items[i])
         IN  IF r.ok THEN visit_seq(items, i + 1, Append(acc, r.val)) ELSE r

\* The visitor fed every entry of the mapping, as a deserializer whose
\* duplicate-key policy is LastWins would feed it.
visit_map_last_wins(entries, i, acc) ==
    IF i > Len(entries) THEN Ok([tv |-> "Mapping", v |-> acc])
    ELSE LET r == TheoremValue_deserialize(entries[i].v)
         IN  IF r.ok
             THEN visit_map_last_wins(entries, i + 1,
                                      IndexMap_insert(acc, entries[i].k, r.val))
             ELSE r

\* map.next_entry()? is the deserializer's: under the default options of
\* serde_saphyr a key that the mapping already holds is an error there, so
\* entries.insert never meets a key twice.
visit_map(entries, i, acc) ==
    IF i > Len(entries) THEN Ok([tv |-> "Mapping", v |-> acc])
    ELSE IF \E j \in 1..(i - 1) : entries[j].k = entries[i].k
    THEN Err(<<"duplicate mapping key">>)
    ELSE LET r == TheoremValue_deserialize(entries[i].v)
         IN  IF r.ok THEN visit_map(entries, i + 1, IndexMap_insert(acc, entries[i].k, r.val))
             ELSE r

deserialize(ty, node) ==
    CASE ty.k = "String" ->
            IF node.t = "str" THEN Ok(node.s) ELSE Err(<<"invalid type: expected a string">>)
      [] ty.k = "u32" ->
            IF node.t = "int" /\ node.n >= 0 THEN Ok(node.n)
            ELSE Err(<<"invalid type: expected u32">>)
      [] ty.k = "bool" ->
            IF node.t = "bool" THEN Ok(node.b) ELSE Err(<<"invalid type: expected a boolean">>)
      [] ty.k = "Option" ->
            IF node.t = "null" THEN Ok(None)
            ELSE LET r == deserialize(ty.of, node) IN IF r.ok THEN Ok(Some(r.val)) ELSE r
      [] ty.k = "Spanned" ->
            LET r == deserialize(ty.of, node)
            IN  IF r.ok THEN Ok([value |-> r.val, referenced |-> node.at]) ELSE r
      [] ty.k = "Vec" ->
            IF node.t = "seq" THEN deserialize_vec(ty.of, node.items, 1, <<>>)
            ELSE Err(<<"invalid type: expected a sequence">>)
      [] ty.k = "IndexMap" ->
            IF node.t = "map" THEN deserialize_map(ty, node.entries, 1, <<>>)
            ELSE Err(<<"invalid type: expected a map">>)
      [] ty.k = "struct" ->
            IF node.t = "map" THEN deserialize_struct(ty.name, node.entries, 1, <<>>)
            ELSE Err(<<"invalid type: expected struct ", ty.name>>)
      [] ty.k = "untagged" -> deserialize_untagged(ty.name, node, 1)
      [] ty.k = "TheoremName" -> TheoremName_deserialize(node)
      [] ty.k = "ForallVar" -> ForallVar_deserialize(node)
      [] ty.k = "TheoremValue" -> TheoremValue_deserialize(node)
      [] ty.k = "KaniExpectation" ->
            IF node.t = "str" /\ node.s \in KaniExpectation THEN Ok(node.s)
            ELSE Err(<<"unknown variant">>)

deserialize_vec(ty, items, i, acc) ==
    IF i > Len(items) THEN Ok(acc)
    ELSE LET r == deserialize(ty, items[i])
         IN  IF r.ok THEN deserialize_vec(ty, items, i + 1, Append(acc, r.val)) ELSE r

deserialize_map(ty, entries, i, acc) ==
    IF i > Len(entries) THEN Ok(acc)
    ELSE IF \E j \in 1..(i - 1) : entries[j].k = entries[i].k
    THEN Err(<<"duplicate mapping key">>)
    ELSE LET key == deserialize(ty.key, YStr(entries[i].k))
         IN  IF ~key.ok THEN key
             ELSE LET val == deserialize(ty.val, entries[i].v)
                  IN  IF ~val.ok THEN val
                      ELSE deserialize_map(ty, entries, i + 1,
                                           IndexMap_insert(acc, key.val, val.val))

\* A struct visitor without deny_unknown_fields: an unknown key is skipped.
deserialize_struct_ignoring_unknown(name, entries, i, acc) ==
    LET fields == StructFields(name)
    IN  IF i > Len(entries)
        THEN LET missing == {j \in DOMAIN fields :
                                /\ fields[j].field \notin DOMAIN acc
                                /\ ~fields[j].default
                                /\ fields[j].ty.k # "Option"}
             IN  IF missing # {}
                 THEN LET j == CHOOSE m \in missing : \A n \in missing : m <= n
                      IN  Err(<<"missing field ", fields[j].key>>)
                 ELSE Ok([f \in {fields[j].field : j \in DOMAIN fields} |->
                            IF f \in DOMAIN acc THEN acc[f]
                            ELSE DefaultOf((CHOOSE fd \in Range(fields) : fd.field = f).ty)])
        ELSE LET key == entries[i].k
                 hit == {fd \in Range(fields) : key = fd.key \/ key \in fd.alias}
             IN  IF hit = {} THEN deserialize_struct(name, entries, i + 1, acc)
                 ELSE LET fd == CHOOSE h \in hit : TRUE
                      IN  IF fd.field \in DOMAIN acc
                          THEN Err(<<"duplicate field ", fd.key>>)
                          ELSE LET r == deserialize(fd.ty, entries[i].v)
                               IN  IF ~r.ok THEN r
                                   ELSE deserialize_struct(name, entries, i + 1,
                                                           acc @@ (fd.field :> r.val))

\* #[derive(Deserialize)] with #[serde(deny_unknown_fields)]: the entries are
\* visited in source order; a key that is neither a field's name nor its alias,
\* a field given twice, or a value that does not deserialize ends the visit;
\* a required field that never came is reported after the last entry.
deserialize_struct(name, entries, i, acc) ==
    LET fields == StructFields(name)
    IN  IF i > Len(entries)
        THEN LET missing == {j \in DOMAIN fields :
                                /\ fields[j].field \notin DOMAIN acc
                                /\ ~fields[j].default
                                /\ fields[j].ty.k # "Option"}
             IN  IF missing # {}
                 THEN LET j == CHOOSE m \in missing : \A n \in missing : m <= n
                      IN  Err(<<"missing field ", fields[j].key>>)
                 ELSE Ok([f \in {fields[j].field : j \in DOMAIN fields} |->
                            IF f \in DOMAIN acc THEN acc[f]
                            ELSE DefaultOf((CHOOSE fd \in Range(fields) : fd.field = f).ty)])
        ELSE LET key == entries[i].k
                 hit == {fd \in Range(fields) : key = fd.key \/ key \in fd.alias}
             IN  IF hit = {} THEN Err(<<"unknown field ", key>>)
                 ELSE LET fd == CHOOSE h \in hit : TRUE
                      IN  IF fd.field \in DOMAIN acc
                          THEN Err(<<"duplicate field ", fd.key>>)
                          ELSE LET r == deserialize(fd.ty, entries[i].v)
                               IN  IF ~r.ok THEN r
                                   ELSE deserialize_struct(name, entries, i + 1,
                                                           acc @@ (fd.field :> r.val))

\* #[serde(untagged)]: the first variant that deserializes is taken.
deserialize_untagged(name, node, i) ==
    LET variants == Variants(name)
    IN  IF i > Len(variants)
        THEN Err(<<"data did not match any variant of untagged enum ", name>>)
        ELSE LET r == deserialize(variants[i].ty, node)
             IN  IF r.ok THEN Ok([variant |-> variants[i].variant, v |-> r.val])
                 ELSE deserialize_untagged(name, node, i + 1)

(***************************************************************************)
(* Messages.  A message is the sequence of the pieces it is formatted      *)
(* from, cut where the code inserts a value or a later reader matches a    *)
(* prefix, so that formatting is computed and not assumed.                 *)
(***************************************************************************)
\* format!("{section} {pos}: ...")
Indexed(section, pos) == section \o <<" ">> \o usize_to_string(pos) \o <<":", " ">>

Min(S) == CHOOSE m \in S : \A n \in S : m <= n

\* A loop that returns at the first failing iteration; rs[i] is the result of
\* iteration i.
FirstFailing(rs) ==
    LET bad == {i \in DOMAIN rs : ~rs[i].ok}
    IN  IF bad = {} THEN Ok(Unit) ELSE rs[Min(bad)]

\* A chain of checks joined by `?`: the first error is returned.
RECURSIVE Chain(_, _)
Chain(rs, i) ==
    IF i > Len(rs) THEN Ok(Unit) ELSE IF ~rs[i].ok THEN rs[i] ELSE Chain(rs, i + 1)

(***************************************************************************)
(* str::trim                                                               *)
(***************************************************************************)
RECURSIVE trim_start(_)
trim_start(s) ==
    IF Len(s) > 0 /\ s[1] \in WhiteChars THEN trim_start(Tail(s)) ELSE s

RECURSIVE trim_end(_)
trim_end(s) ==
    IF Len(s) > 0 /\ s[Len(s)] \in WhiteChars THEN trim_end(SubSeq(s, 1, Len(s) - 1)) ELSE s

trim(s) == trim_end(trim_start(s))

(***************************************************************************)
(* expr.rs.  syn::parse_str is the parser of the syn crate: it is given    *)
(* here by its result on the expression texts the documents use, the       *)
(* variant of the root node or a parse error.                              *)
(***************************************************************************)
E_true == <<"t","r","u","e">>
E_gt == <<"x",">","0">>
E_assign == <<"x","=","1">>
E_add_assign == <<"x","+","=","1">>
E_block == <<"{","x","}">>
E_paren_assign == <<"(","x","=","1",")">>
E_dangling == <<"x",">">>

\* Longer texts are written as the sequence of their lexical tokens.
\* syn::BinOp: the operator a binary-operator token parses to.
BinOp(token) ==
    CASE token = "+" -> "Add" [] token = "-" -> "Sub" [] token = "*" -> "Mul"
      [] token = "/" -> "Div" [] token = "%" -> "Rem" [] token = "&&" -> "And"
      [] token = "||" -> "Or" [] token = "^" -> "BitXor" [] token = "&" -> "BitAnd"
      [] token = "|" -> "BitOr" [] token = "<<" -> "Shl" [] token = ">>" -> "Shr"
      [] token = "==" -> "Eq" [] token = "<" -> "Lt" [] token = "<=" -> "Le"
      [] token = "!=" -> "Ne" [] token = ">=" -> "Ge" [] token = ">" -> "Gt"
      [] token = "+=" -> "AddAssign" [] token = "-=" -> "SubAssign"
      [] token = "*=" -> "MulAssign" [] token = "/=" -> "DivAssign"
      [] token = "%=" -> "RemAssign" [] token = "^=" -> "BitXorAssign"
      [] token = "&=" -> "BitAndAssign" [] token = "|=" -> "BitOrAssign"
      [] token = "<<=" -> "ShlAssign" [] token = ">>=" -> "ShrAssign"

BinOpTokens ==
    {"+", "-", "*", "/", "%", "&&", "||", "^", "&", "|", "<<", ">>", "==", "<", "<=", "!=",
     ">=", ">", "+=", "-=", "*=", "/=", "%=", "^=", "&=", "|=", "<<=", ">>="}

\* The texts that parse, each with the variant of its root node.
SynTable ==
    <<
       <<<<"if", "c", "{", "a", "}", "else", "{", "b", "}">>, "If">>,
       <<<<"match", "x", "{", "_", "=>", "a", "}">>, "Match">>,
       <<<<"|", "a", "|", "a">>, "Closure">>,
       <<<<"f", "(", "x", ")">>, "Call">>,
       <<<<"x", ".", "f", "(", ")">>, "MethodCall">>,
       <<<<"!", "x">>, "Unary">>,
       <<<<"-", "x">>, "Unary">>,
       <<<<"*", "x">>, "Unary">>,
       <<<<"x">>, "Path">>,
       <<<<"x", "?">>, "Try">>,
       <<<<"&", "x">>, "Reference">>,
       <<<<"x", "as", "u8">>, "Cast">>,
       <<<<"v", "[", "0", "]">>, "Index">>,
       <<<<"x", ".", "y">>, "Field">>,
       <<<<"(", "a", ",", "b", ")">>, "Tuple">>,
       <<<<"[", "a", "]">>, "Array">>,
       <<<<"0", "..", "n">>, "Range">>,
       <<<<"m", "!", "(", ")">>, "Macro">>,
       <<<<"S", "{", "a", ":", "1", "}">>, "Struct">>,
       <<<<"f", ".", "await">>, "Await">>,
       <<<<"{", "x", ";", "y", "}">>, "Block">>,
       <<<<"for", "i", "in", "v", "{", "}">>, "ForLoop">>,
       <<<<"while", "c", "{", "}">>, "While">>,
       <<<<"loop", "{", "}">>, "Loop">>,
       <<<<"let", "x", "=", "5">>, "Let">>,
       <<<<"unsafe", "{", "x", "}">>, "Unsafe">>,
       <<<<"async", "{", "x", "}">>, "Async">>,
       <<<<"const", "{", "1", "}">>, "Const">>,
       <<<<"try", "{", "x", "}">>, "TryBlock">>,
       <<<<"return", "x">>, "Return">>,
       <<<<"break", "x">>, "Break">>,
       <<<<"continue">>, "Continue">>,
       <<<<"yield", "x">>, "Yield">>,
       <<<<"a", "=", "b">>, "Assign">>,
       <<<<"(", "x", "=", "5", ")">>, "Paren">>,
       <<<<"|", "a", "|", "{", "let", "y", "=", "a", ";", "y", "}">>, "Closure">>,
       <<<<"|", "|", "loop", "{", "}">>, "Closure">>,
       <<<<"|", "a", "|", "a", "=", "1">>, "Closure">>,
       <<<<"if", "c", "{", "x", "=", "1", "}">>, "If">>,
       <<<<"if", "c", "{", "let", "y", "=", "1", ";", "}">>, "If">>,
       <<<<"if", "c", "{", "x", "+=", "1", "}">>, "If">>,
       <<<<"f", "(", "{", "x", "}", ")">>, "Call">>,
       <<<<"x", ".", "f", "(", "{", "x", "}", ")">>, "MethodCall">>,
       <<<<"match", "x", "{", "_", "=>", "{", "a", "=", "1", "}", "}">>, "Match">> >>

\* The variants of the expression nodes below the root, for the texts that
\* nest a block, binding, loop or assignment inside another form.
SynInnerTable ==
    <<
       <<E_paren_assign, {"Assign", "Path", "Lit"}>>,
       <<<<"(", "x", "=", "5", ")">>, {"Assign", "Path", "Lit"}>>,
       <<<<"|", "a", "|", "{", "let", "y", "=", "a", ";", "y", "}">>, {"Block", "Path"}>>,
       <<<<"|", "|", "loop", "{", "}">>, {"Loop"}>>,
       <<<<"|", "a", "|", "a", "=", "1">>, {"Assign", "Path", "Lit"}>>,
       <<<<"if", "c", "{", "x", "=", "1", "}">>, {"Assign", "Path", "Lit"}>>,
       <<<<"if", "c", "{", "let", "y", "=", "1", ";", "}">>, {"Path"}>>,
       <<<<"if", "c", "{", "x", "+=", "1", "}">>, {"Binary", "Path", "Lit"}>>,
       <<<<"f", "(", "{", "x", "}", ")">>, {"Block", "Path"}>>,
       <<<<"x", ".", "f", "(", "{", "x", "}", ")">>, {"Block", "Path"}>>,
       <<<<"match", "x", "{", "_", "=>", "{", "a", "=", "1", "}", "}">>,
         {"Block", "Assign", "Path", "Lit"}>> >>

SynInner(s) ==
    IF \E i \in DOMAIN SynInnerTable : SynInnerTable[i][1] = s
    THEN SynInnerTable[CHOOSE i \in DOMAIN SynInnerTable : SynInnerTable[i][1] = s][2]
    ELSE {}

SynRoot(s) ==
    IF \E i \in DOMAIN SynTable : SynTable[i][1] = s
    THEN SynTable[CHOOSE i \in DOMAIN SynTable : SynTable[i][1] = s][2]
    ELSE "none"

\* The root node of the parse, or the parse error.
SynRootNode(s) ==
    CASE s = E_true -> Ok([variant |-> "Lit", op |-> ""])
      [] s = E_gt -> Ok([variant |-> "Binary", op |-> "Gt"])
      [] s = E_assign -> Ok([variant |-> "Assign", op |-> ""])
      [] s = E_add_assign -> Ok([variant |-> "Binary", op |-> "AddAssign"])
      [] s = E_block -> Ok([variant |-> "Block", op |-> ""])
      [] s = E_paren_assign -> Ok([variant |-> "Paren", op |-> ""])
      [] s = E_dangling -> Err("unexpected end of input, expected an expression")
      [] s = <<>> -> Err("unexpected end of input, expected an expression")
      [] Len(s) = 3 /\ s[1] = "a" /\ s[3] = "b" /\ s[2] \in BinOpTokens ->
            Ok([variant |-> "Binary", op |-> BinOp(s[2])])
      [] SynRoot(s) # "none" -> Ok([variant |-> SynRoot(s), op |-> ""])
      [] s = <<"if", "{", "}">> -> Err("expected expression")
      [] s = <<"not", "rust", "code", "%%">> -> Err("unexpected token")

\* The parsed expression: its root node and the nodes nested below it.
syn_parse_str(s) ==
    CHOOSE parsed \in
        {IF root.ok
         THEN Ok([variant |-> root.val.variant, op |-> root.val.op, inner |-> SynInner(s)])
         ELSE root : root \in {SynRootNode(s)}} : TRUE

\* Only the arithmetic compound assignments.
is_compound_assignment_arithmetic_only(expr) ==
    /\ expr.variant = "Binary"
    /\ expr.op \in {"AddAssign", "SubAssign", "MulAssign", "DivAssign", "RemAssign"}

is_compound_assignment(expr) ==
    /\ expr.variant = "Binary"
    /\ expr.op \in {"AddAssign", "SubAssign", "MulAssign", "DivAssign", "RemAssign",
                    "BitXorAssign", "BitAndAssign", "BitOrAssign", "ShlAssign", "ShrAssign"}

\* Looks for a rejected form anywhere in the expression, not only at its root.
is_statement_like_any_depth(expr) ==
    \/ expr.variant \in {"Assign", "Async", "Block", "Break", "Const", "Continue", "ForLoop",
                         "Let", "Loop", "Return", "TryBlock", "Unsafe", "While", "Yield"}
    \/ is_compound_assignment(expr)
    \/ expr.inner \cap {"Assign", "Async", "Block", "Break", "Const", "Continue", "ForLoop",
                        "Let", "Loop", "Return", "TryBlock", "Unsafe", "While", "Yield"} # {}

is_statement_like(expr) ==
    \/ expr.variant \in {"Assign", "Async", "Block", "Break", "Const", "Continue", "ForLoop",
                         "Let", "Loop", "Return", "TryBlock", "Unsafe", "While", "Yield"}
    \/ is_compound_assignment(expr)

validate_rust_expr(s) ==
    LET parsed == syn_parse_str(s)
    IN  IF ~parsed.ok THEN Err(<<"is not a valid Rust expression", ":", " ", parsed.err>>)
        ELSE IF is_statement_like(parsed.val)
        THEN Err(<<"must be a single expression, not a statement or block">>)
        ELSE Ok(Unit)

(***************************************************************************)
(* step.rs                                                                 *)
(***************************************************************************)
validate_action_call(action_call) ==
    IF trim(action_call.action) = <<>>
    THEN Err(<<"action", " ", "must be non-empty after trimming">>)
    ELSE Ok(Unit)

RECURSIVE validate_step_list(_, _)
RECURSIVE validate_step(_, _, _)
RECURSIVE validate_maybe_block(_, _, _)

validate_step_list(steps, path) ==
    FirstFailing([i \in DOMAIN steps |-> validate_step(steps[i], path, i)])

validate_step(step, path, pos) ==
    CASE step.variant = "Call" ->
            LET r == validate_action_call(step.v.call)
            IN  IF r.ok THEN Ok(Unit) ELSE Err(Indexed(path, pos) \o r.err)
      [] step.variant = "Must" ->
            LET r == validate_action_call(step.v.must)
            IN  IF r.ok THEN Ok(Unit) ELSE Err(Indexed(path, pos) \o r.err)
      [] step.variant = "Maybe" -> validate_maybe_block(step.v.maybe, path, pos)

\* The nested path without the positions above it.
validate_maybe_block_flat_path(maybe, path, pos) ==
    IF trim(maybe.because) = <<>>
    THEN Err(Indexed(path, pos) \o <<"maybe.because", " ", "must be non-empty after trimming">>)
    ELSE IF Len(maybe.do_steps) = 0
    THEN Err(Indexed(path, pos) \o <<"maybe.do must contain at least one step">>)
    ELSE validate_step_list(maybe.do_steps, <<"maybe.do step">>)

validate_maybe_block(maybe, path, pos) ==
    IF trim(maybe.because) = <<>>
    THEN Err(Indexed(path, pos) \o <<"maybe.because", " ", "must be non-empty after trimming">>)
    ELSE IF Len(maybe.do_steps) = 0
    THEN Err(Indexed(path, pos) \o <<"maybe.do must contain at least one step">>)
    ELSE validate_step_list(maybe.do_steps, Indexed(path, pos) \o <<"maybe.do step">>)

(***************************************************************************)
(* validate.rs                                                             *)
(***************************************************************************)
is_blank(s) == trim(s) = <<>>

ValidationFailed(theorem, reason) ==
    [kind |-> "ValidationFailed", theorem |-> theorem, reason |-> reason]

fail(d, reason) == ValidationFailed(d.theorem.s, reason)

require_non_blank_fields(d, section, pos, fields) ==
    LET blank == {j \in DOMAIN fields : is_blank(fields[j][2])}
    IN  IF blank = {} THEN Ok(Unit)
        ELSE Err(fail(d, Indexed(section, pos)
                         \o <<fields[Min(blank)][1], " ", "must be non-empty after trimming">>))

\* The position counted from 0.
validate_collection_fields_zero_based(d, section, fields) ==
    FirstFailing([i \in DOMAIN fields |->
        require_non_blank_fields(d, section, i - 1, fields[i])])

\* fields[i] is extract_fields(item) for the i-th item.
validate_collection_fields(d, section, fields) ==
    FirstFailing([i \in DOMAIN fields |-> require_non_blank_fields(d, section, i, fields[i])])

validate_about(d) ==
    IF is_blank(d.about)
    THEN Err(fail(d, <<"About must be non-empty", " after trimming">>))
    ELSE Ok(Unit)

validate_prove_non_empty(d) ==
    IF Len(d.prove) = 0
    THEN Err(fail(d, <<"Prove section must contain at least one assertion">>))
    ELSE Ok(Unit)

validate_assertions(d) ==
    validate_collection_fields(d, <<"Prove assertion">>,
        [i \in DOMAIN d.prove |->
            << <<"assert", d.prove[i].assert_expr>>, <<"because", d.prove[i].because>> >>])

validate_assumptions(d) ==
    validate_collection_fields(d, <<"Assume constraint">>,
        [i \in DOMAIN d.assume |->
            << <<"expr", d.assume[i].expr>>, <<"because", d.assume[i].because>> >>])

validate_witnesses(d) ==
    validate_collection_fields(d, <<"Witness">>,
        [i \in DOMAIN d.witness |->
            << <<"cover", d.witness[i].cover>>, <<"because", d.witness[i].because>> >>])

\* One of the three loops of validate_expressions.
ExprLoop(d, section, label, texts) ==
    FirstFailing([i \in DOMAIN texts |->
        LET r == validate_rust_expr(trim(texts[i]))
        IN  IF r.ok THEN r
            ELSE Err(fail(d, Indexed(section, i) \o <<label, " ">> \o r.err))])

validate_expressions(d) ==
    Chain(<< ExprLoop(d, <<"Assume constraint">>, "expr",
                      [i \in DOMAIN d.assume |-> d.assume[i].expr]),
             ExprLoop(d, <<"Prove assertion">>, "assert",
                      [i \in DOMAIN d.prove |-> d.prove[i].assert_expr]),
             ExprLoop(d, <<"Witness">>, "cover",
                      [i \in DOMAIN d.witness |-> d.witness[i].cover]) >>, 1)

validate_let_bindings(d) ==
    FirstFailing([i \in DOMAIN d.let_bindings |->
        LET name == d.let_bindings[i].k
            binding == d.let_bindings[i].v
            ac == IF binding.variant = "Call" THEN binding.v.call ELSE binding.v.must
            r == validate_action_call(ac)
        IN  IF r.ok THEN r
            ELSE Err(fail(d, <<"Let binding '", name, "'", ":", " ">> \o r.err))])

validate_do_steps(d) ==
    LET r == validate_step_list(d.do_steps, <<"Do step">>)
    IN  IF r.ok THEN r ELSE Err(fail(d, r.err))

\* Only the primary backend counts.
has_any_backend_kani_only(evidence) == evidence.kani.some

has_any_backend(evidence) ==
    evidence.kani.some \/ evidence.verus.some \/ evidence.stateright.some

validate_kani_unwind(d, kani) ==
    IF kani.unwind = 0
    THEN Err(fail(d, <<"Evidence.kani.unwind", " must be a positive integer (> 0)">>))
    ELSE Ok(Unit)

validate_kani_vacuity(d, kani) ==
    LET requires_reason == kani.allow_vacuous
        has_reason == kani.vacuity_because.some
        reason_is_blank == kani.vacuity_because.some /\ is_blank(kani.vacuity_because.v)
    IN  IF requires_reason /\ ~has_reason
        THEN Err(fail(d, <<"vacuity_because is required when allow_vacuous is true">>))
        ELSE IF has_reason /\ reason_is_blank
        THEN Err(fail(d, <<"Evidence.kani.vacuity_because must be non-empty", " after trimming">>))
        ELSE Ok(Unit)

validate_kani_witnesses(d, kani) ==
    IF ~kani.allow_vacuous /\ Len(d.witness) = 0
    THEN Err(fail(d, <<"Witness", " ",
        "section must contain at least one witness when allow_vacuous is false (the default)">>))
    ELSE Ok(Unit)

\* The witness check moved before the vacuity check.
validate_evidence_witnesses_first(d) ==
    IF ~has_any_backend(d.evidence)
    THEN Err(fail(d,
        <<"Evidence section must specify at least one backend (kani, verus, or stateright)">>))
    ELSE IF d.evidence.kani.some
    THEN Chain(<< validate_kani_unwind(d, d.evidence.kani.v),
                  validate_kani_witnesses(d, d.evidence.kani.v),
                  validate_kani_vacuity(d, d.evidence.kani.v) >>, 1)
    ELSE Ok(Unit)

validate_evidence(d) ==
    IF ~has_any_backend(d.evidence)
    THEN Err(fail(d,
        <<"Evidence section must specify at least one backend (kani, verus, or stateright)">>))
    ELSE IF d.evidence.kani.some
    THEN Chain(<< validate_kani_unwind(d, d.evidence.kani.v),
                  validate_kani_vacuity(d, d.evidence.kani.v),
                  validate_kani_witnesses(d, d.evidence.kani.v) >>, 1)
    ELSE Ok(Unit)

\* The expressions classified before the fields are checked for blanks.
validate_theorem_doc_expressions_first(d) ==
    Chain(<< validate_about(d),
             validate_prove_non_empty(d),
             validate_expressions(d),
             validate_assertions(d),
             validate_assumptions(d),
             validate_witnesses(d),
             validate_let_bindings(d),
             validate_do_steps(d),
             validate_evidence(d) >>, 1)

\* The same checks with the evidence check moved to the front.
validate_theorem_doc_evidence_first(d) ==
    Chain(<< validate_evidence(d),
             validate_about(d),
             validate_prove_non_empty(d),
             validate_assertions(d),
             validate_assumptions(d),
             validate_witnesses(d),
             validate_expressions(d),
             validate_let_bindings(d),
             validate_do_steps(d) >>, 1)

validate_theorem_doc(d) ==
    Chain(<< validate_about(d),
             validate_prove_non_empty(d),
             validate_assertions(d),
             validate_assumptions(d),
             validate_witnesses(d),
             validate_expressions(d),
             validate_let_bindings(d),
             validate_do_steps(d),
             validate_evidence(d) >>, 1)

(***************************************************************************)
(* raw.rs                                                                  *)
(***************************************************************************)
\* The conversion with an absent allow_vacuous taken for true.
to_kani_evidence_vacuous_by_default(kani) ==
    [unwind |-> kani.unwind.value,
     expect |-> kani.expect,
     allow_vacuous |-> ~kani.allow_vacuous.some \/ kani.allow_vacuous.v.value,
     vacuity_because |-> IF kani.vacuity_because.some
                         THEN Some(kani.vacuity_because.v.value) ELSE None]

to_kani_evidence(kani) ==
    [unwind |-> kani.unwind.value,
     expect |-> kani.expect,
     allow_vacuous |-> kani.allow_vacuous.some /\ kani.allow_vacuous.v.value,
     vacuity_because |-> IF kani.vacuity_because.some
                         THEN Some(kani.vacuity_because.v.value) ELSE None]

to_evidence(evidence) ==
    [kani |-> IF evidence.kani.some THEN Some(to_kani_evidence(evidence.kani.v)) ELSE None,
     verus |-> evidence.verus,
     stateright |-> evidence.stateright]

to_theorem_doc(raw) ==
    [schema |-> raw.schema,
     theorem |-> raw.theorem.value,
     about |-> raw.about.value,
     tags |-> raw.tags,
     given |-> raw.given,
     forall |-> raw.forall,
     assume |-> [i \in DOMAIN raw.assume |->
                    [expr |-> raw.assume[i].expr.value,
                     because |-> raw.assume[i].because.value]],
     witness |-> [i \in DOMAIN raw.witness |->
                    [cover |-> raw.witness[i].cover.value,
                     because |-> raw.witness[i].because.value]],
     let_bindings |-> raw.let_bindings,
     do_steps |-> raw.do_steps,
     prove |-> [i \in DOMAIN raw.prove |->
                    [assert_expr |-> raw.prove[i].assert_expr.value,
                     because |-> raw.prove[i].because.value]],
     evidence |-> to_evidence(raw.evidence)]

theorem_location(raw) == raw.theorem.referenced

\* str::starts_with, str::contains and str::split_once(':') on a message.
starts_with(reason, prefix) ==
    Len(reason) >= Len(prefix) /\ SubSeq(reason, 1, Len(prefix)) = prefix

contains(reason, pattern) ==
    \E i \in 1..(Len(reason) - Len(pattern) + 1) :
        SubSeq(reason, i, i + Len(pattern) - 1) = pattern

before_colon(tail) ==
    LET colons == {i \in DOMAIN tail : tail[i] = ":"}
    IN  IF colons = {} THEN None ELSE Some(SubSeq(tail, 1, Min(colons) - 1))

Digits == {"0", "1", "2", "3", "4", "5", "6", "7", "8", "9"}
DigitValue(c) == CHOOSE n \in 0..9 : DigitOf(n) = c

RECURSIVE parse_usize(_)
\* str::parse::<usize>: a non-empty run of decimal digits.
parse_usize(s) ==
    IF s = <<>> \/ \E i \in DOMAIN s : s[i] \notin Digits THEN None
    ELSE IF Len(s) = 1 THEN Some(DigitValue(s[1]))
    ELSE Some(10 * parse_usize(SubSeq(s, 1, Len(s) - 1)).v + DigitValue(s[Len(s)]))

\* The index taken from the position of the first entry instead of zero.
indexed_error_position_one_based(reason, prefix) ==
    IF ~starts_with(reason, prefix) THEN None
    ELSE LET raw_index == before_colon(SubSeq(reason, Len(prefix) + 1, Len(reason)))
         IN  IF ~raw_index.some THEN None
             ELSE LET parsed == parse_usize(trim(raw_index.v))
                  IN  IF ~parsed.some THEN None ELSE Some(parsed.v)

\* saturating_sub in place of checked_sub: index 0 stays 0.
indexed_error_position_saturating(reason, prefix) ==
    IF ~starts_with(reason, prefix) THEN None
    ELSE LET raw_index == before_colon(SubSeq(reason, Len(prefix) + 1, Len(reason)))
         IN  IF ~raw_index.some THEN None
             ELSE LET parsed == parse_usize(trim(raw_index.v))
                  IN  IF ~parsed.some THEN None
                      ELSE IF parsed.v = 0 THEN Some(0) ELSE Some(parsed.v - 1)

indexed_error_position(reason, prefix) ==
    IF ~starts_with(reason, prefix) THEN None
    ELSE LET raw_index == before_colon(SubSeq(reason, Len(prefix) + 1, Len(reason)))
         IN  IF ~raw_index.some THEN None
             ELSE LET parsed == parse_usize(trim(raw_index.v))
                  IN  IF ~parsed.some THEN None
                      ELSE IF parsed.v = 0 THEN None ELSE Some(parsed.v - 1)

\* slice::get with a zero-based index.
get(items, index) == IF index + 1 \in DOMAIN items THEN Some(items[index + 1]) ELSE None

prove_field_location(raw, reason) ==
    LET index == indexed_error_position(reason, <<"Prove assertion", " ">>)
    IN  IF ~index.some THEN None
        ELSE LET prove == get(raw.prove, index.v)
             IN  IF ~prove.some THEN None
                 ELSE IF contains(reason, <<":", " ", "because", " ">>)
                 THEN Some(prove.v.because.referenced)
                 ELSE Some(prove.v.assert_expr.referenced)

assume_field_location(raw, reason) ==
    LET index == indexed_error_position(reason, <<"Assume constraint", " ">>)
    IN  IF ~index.some THEN None
        ELSE LET assume == get(raw.assume, index.v)
             IN  IF ~assume.some THEN None
                 ELSE IF contains(reason, <<":", " ", "because", " ">>)
                 THEN Some(assume.v.because.referenced)
                 ELSE Some(assume.v.expr.referenced)

witness_field_location(raw, reason) ==
    LET index == indexed_error_position(reason, <<"Witness", " ">>)
    IN  IF ~index.some THEN None
        ELSE LET witness == get(raw.witness, index.v)
             IN  IF ~witness.some THEN None
                 ELSE IF contains(reason, <<":", " ", "because", " ">>)
                 THEN Some(witness.v.because.referenced)
                 ELSE Some(witness.v.cover.referenced)

\* The missing-justification failure placed at the justification field.
kani_field_location_at_vacuity_because(raw, reason) ==
    IF ~raw.evidence.kani.some THEN None
    ELSE LET kani == raw.evidence.kani.v
         IN  IF starts_with(reason, <<"Evidence.kani.unwind">>)
             THEN Some(kani.unwind.referenced)
             ELSE IF starts_with(reason,
                                 <<"vacuity_because is required when allow_vacuous is true">>)
                     \/ starts_with(reason,
                                    <<"Evidence.kani.vacuity_because must be non-empty">>)
             THEN IF kani.vacuity_because.some
                  THEN Some(kani.vacuity_because.v.referenced) ELSE None
             ELSE None

kani_field_location(raw, reason) ==
    IF ~raw.evidence.kani.some THEN None
    ELSE LET kani == raw.evidence.kani.v
         IN  IF starts_with(reason, <<"Evidence.kani.unwind">>)
             THEN Some(kani.unwind.referenced)
             ELSE IF starts_with(reason,
                                 <<"vacuity_because is required when allow_vacuous is true">>)
             THEN IF kani.allow_vacuous.some
                  THEN Some(kani.allow_vacuous.v.referenced) ELSE None
             ELSE IF starts_with(reason, <<"Evidence.kani.vacuity_because must be non-empty">>)
             THEN IF kani.vacuity_because.some
                  THEN Some(kani.vacuity_because.v.referenced) ELSE None
             ELSE None

location_for_reason(raw, reason) ==
    IF starts_with(reason, <<"About must be non-empty">>) THEN Some(raw.about.referenced)
    ELSE IF prove_field_location(raw, reason).some THEN prove_field_location(raw, reason)
    ELSE IF assume_field_location(raw, reason).some THEN assume_field_location(raw, reason)
    ELSE IF witness_field_location(raw, reason).some THEN witness_field_location(raw, reason)
    ELSE IF kani_field_location(raw, reason).some THEN kani_field_location(raw, reason)
    ELSE None

location_for_validation_reason(raw, reason) ==
    IF location_for_reason(raw, reason).some THEN location_for_reason(raw, reason).v
    ELSE theorem_location(raw)

(***************************************************************************)
(* loader.rs                                                               *)
(***************************************************************************)
\* serde_saphyr::from_multiple: every document of the text is deserialized, in
\* source order, before anything is returned; the first error ends it.
\* The documents deserialized last to first.
from_multiple_reversed(text) ==
    deserialize_vec(TStruct("TheoremDoc"),
                    [i \in DOMAIN text |-> text[Len(text) + 1 - i]], 1, <<>>)

from_multiple(text) == deserialize_vec(TStruct("TheoremDoc"), text, 1, <<>>)

Deserialize(message) == [kind |-> "Deserialize", message |-> message]

\* The body of the `for doc in &docs` loop.
load_check_doc(d) ==
    IF Len(d.prove) = 0
    THEN Err(ValidationFailed(d.theorem.s,
                              <<"Prove section must contain at least one assertion">>))
    ELSE IF ~d.evidence.kani.some /\ ~d.evidence.verus.some /\ ~d.evidence.stateright.some
    THEN Err(ValidationFailed(d.theorem.s,
        <<"Evidence section must specify at least one backend (kani, verus, or stateright)">>))
    ELSE Ok(Unit)

\* Each document is deserialized and checked before the next one is read.
load_theorem_docs_one_by_one(text) ==
    LET each == [i \in DOMAIN text |->
                    CHOOSE checked \in
                        {IF ~d.ok THEN Err(Deserialize(d.err)) ELSE load_check_doc(d.val) :
                            d \in {deserialize(TStruct("TheoremDoc"), text[i])}} : TRUE]
        r == FirstFailing(each)
    IN  IF ~r.ok THEN r
        ELSE Ok([i \in DOMAIN text |-> deserialize(TStruct("TheoremDoc"), text[i]).val])

\* The text is deserialized once; the loop works on the documents read.
load_theorem_docs(text) ==
    CHOOSE loaded \in
        {IF ~docs.ok THEN Err(Deserialize(docs.err))
         ELSE LET r == FirstFailing([i \in DOMAIN docs.val |-> load_check_doc(docs.val[i])])
              IN  IF ~r.ok THEN r ELSE Ok(docs.val) :
            docs \in {from_multiple(text)}} : TRUE

(***************************************************************************)
(* diagnostic.rs, error.rs                                                 *)
(***************************************************************************)
\* The two codes exchanged.
SchemaDiagnosticCode_as_str_swapped(code) ==
    CASE code = "ParseFailure" -> "schema.validation_failure"
      [] code = "ValidationFailure" -> "schema.parse_failure"

SchemaDiagnosticCode_as_str(code) ==
    CASE code = "ParseFailure" -> "schema.parse_failure"
      [] code = "ValidationFailure" -> "schema.validation_failure"

SourceLocation(source, at) == [source |-> source, line |-> at.line, column |-> at.column]

SchemaDiagnostic(code, location, message) ==
    [code |-> code, location |-> location, message |-> message]

\* SchemaError::diagnostic
diagnostic(error) ==
    IF error.kind \in {"Deserialize", "ValidationFailed"} THEN error.diagnostic ELSE None

(***************************************************************************)
(* The loader that takes a source identifier.  The documents are           *)
(* deserialized into the raw types, all of them before any is validated;   *)
(* a parse failure carries the position the parser reports, here the       *)
(* first line of the document that fails; each raw document is converted   *)
(* and validated in source order, and the first failure carries the        *)
(* position that the raw document gives for its reason.                    *)
(***************************************************************************)
validation_failure(source, raw, r) ==
    IF r.ok THEN r
    ELSE Err([kind |-> "ValidationFailed",
              theorem |-> r.err.theorem,
              reason |-> r.err.reason,
              diagnostic |->
                  Some(SchemaDiagnostic(
                      "ValidationFailure",
                      SourceLocation(source,
                                     location_for_validation_reason(raw, r.err.reason)),
                      r.err.reason))])

\* The raw document is converted once and validated once.
load_validate_raw(source, raw) ==
    CHOOSE validated \in
        UNION {{validation_failure(source, raw, r) : r \in {validate_theorem_doc(converted)}} :
               converted \in {to_theorem_doc(raw)}} : TRUE

load_placed_docs(source, placed, raws) ==
    IF ~raws.ok
    THEN LET failing == Min({i \in DOMAIN placed :
                               ~deserialize(TStruct("RawTheoremDoc"), placed[i]).ok})
         IN  Err([kind |-> "Deserialize",
                  message |-> raws.err,
                  diagnostic |->
                      Some(SchemaDiagnostic("ParseFailure",
                                            SourceLocation(source, placed[failing].at),
                                            raws.err))])
    ELSE LET r == FirstFailing([i \in DOMAIN raws.val |->
                                   load_validate_raw(source, raws.val[i])])
         IN  IF ~r.ok THEN r
             ELSE Ok([i \in DOMAIN raws.val |-> to_theorem_doc(raws.val[i])])

\* The text is laid out once and deserialized once; the rest works on the
\* placed documents and on the raw documents read from them.
load_theorem_docs_with_source(source, text) ==
    CHOOSE loaded \in
        UNION {{load_placed_docs(source, placed, raws) :
                    raws \in {deserialize_vec(TStruct("RawTheoremDoc"), placed, 1, <<>>)}} :
               placed \in {PlaceDocuments(text)}} : TRUE

(***************************************************************************)
(* Inputs.                                                                 *)
(***************************************************************************)
\* The strings handed to validate_identifier: every string of at most MaxLen
\* characters over a small alphabet, and the strings of the unit tests.
IdentAlphabet == {"f", "n", "F", "_", "1", "-"}
SeqsUpTo(A, n) == UNION {[1..k -> A] : k \in 0..n}
IdentSamples == {
    <<"s","e","l","f">>, <<"S","e","l","f">>, <<"l","e","t","s">>, <<"t","y","p","e","s">>,
    <<"F","n">>, <<"1","2","3","b","a","d">>, <<"m","y","-","t","h","m">>, <<"l","e","t">>,
    <<"h","a","s"," ","s","p">>, <<"M","y","_","T","4","2">>, <<"u","n","i","o","n">> }
IdentInputs == SeqsUpTo(IdentAlphabet, MaxLen) \cup IdentSamples

\* Editing a YAML mapping: the value under a key, a key set (replaced in place,
\* or appended when the mapping has no such key), a key removed, an entry put
\* first.
MapHas(m, key) == \E i \in DOMAIN m.entries : m.entries[i].k = key
MapGet(m, key) == (CHOOSE e \in Range(m.entries) : e.k = key).v
MapSet(m, key, v) ==
    IF MapHas(m, key)
    THEN YMap([i \in DOMAIN m.entries |->
                 IF m.entries[i].k = key THEN KV(key, v) ELSE m.entries[i]])
    ELSE YMap(Append(m.entries, KV(key, v)))
RECURSIVE WithoutKey(_, _)
WithoutKey(entries, key) ==
    IF entries = <<>> THEN <<>>
    ELSE IF Head(entries).k = key THEN WithoutKey(Tail(entries), key)
    ELSE <<Head(entries)>> \o WithoutKey(Tail(entries), key)

MapDel(m, key) == YMap(WithoutKey(m.entries, key))
MapPrepend(m, key, v) == YMap(<<KV(key, v)>> \o m.entries)
\* A key of a nested mapping set; nothing changes when the outer key is absent.
MapSetIn(m, outer, key, v) ==
    IF MapHas(m, outer) /\ MapGet(m, outer).t = "map"
    THEN MapSet(m, outer, MapSet(MapGet(m, outer), key, v))
    ELSE m

T_ok == <<"o","k">>
T_padded == <<" ","o","k"," ">>
T_blank == <<" ","\t">>
T_empty == <<>>
SUCCESS == <<"S","U","C","C","E","S","S">>

YPair(k1, expr, because) == YMap(<<KV(k1, YStr(expr)), KV("because", YStr(because))>>)
YCall(kind, action) ==
    YMap(<<KV(kind, YMap(<<KV("action", YStr(action)),
                           KV("args", YMap(<<KV("n", YInt(1))>>))>>))>>)
YMaybe(because, steps) ==
    YMap(<<KV("maybe", YMap(<<KV("because", YStr(because)), KV("do", YSeq(steps))>>))>>)
YKani(unwind) == YMap(<<KV("unwind", YInt(unwind)), KV("expect", YStr(SUCCESS))>>)

\* The minimal valid document of the unit tests.
MinimalDoc(theorem) ==
    YMap(<< KV("Theorem", YStr(theorem)),
            KV("About", YStr(T_ok)),
            KV("Prove", YSeq(<<YPair("assert", E_true, T_ok)>>)),
            KV("Evidence", YMap(<<KV("kani", YKani(1))>>)),
            KV("Witness", YSeq(<<YPair("cover", E_true, T_ok)>>)) >>)

\* A valid document with every section.
FullDoc ==
    YMap(<< KV("Schema", YInt(1)),
            KV("Theorem", YStr(<<"F","u","l","l">>)),
            KV("About", YStr(T_padded)),
            KV("Tags", YSeq(<<YStr(<<"a">>), YStr(<<"b">>)>>)),
            KV("Given", YSeq(<<YStr(T_ok)>>)),
            KV("Forall", YMap(<<KV(<<"n">>, YStr(<<"u","6","4">>)),
                                KV(<<"_","m">>, YStr(<<"u","8">>))>>)),
            KV("Assume", YSeq(<<YPair("expr", E_gt, T_ok)>>)),
            KV("Witness", YSeq(<<YPair("cover", E_gt, T_ok), YPair("cover", E_true, T_ok)>>)),
            KV("Let", YMap(<<KV("r", YCall("call", T_ok)), KV("q", YCall("must", T_ok))>>)),
            KV("Do", YSeq(<<YCall("call", T_ok),
                            YMaybe(T_ok, <<YCall("must", T_ok)>>)>>)),
            KV("Prove", YSeq(<<YPair("assert", E_gt, T_ok),
                               YPair("assert", E_paren_assign, T_ok)>>)),
            KV("Evidence", YMap(<<KV("kani", YKani(2))>>)) >>)

\* A valid document that permits vacuity and has no witness.
VacuousDoc ==
    YMap(<< KV("Theorem", YStr(<<"V">>)),
            KV("About", YStr(T_ok)),
            KV("Prove", YSeq(<<YPair("assert", E_true, T_ok)>>)),
            KV("Evidence", YMap(<<KV("kani",
                MapSet(MapSet(YKani(1), "allow_vacuous", YBool(TRUE)),
                       "vacuity_because", YStr(T_ok)))>>)) >>)

BaseDocs == {MinimalDoc(<<"T">>), FullDoc, VacuousDoc}

SetKani(d, key, v) ==
    IF MapHas(d, "Evidence") /\ MapGet(d, "Evidence").t = "map"
    THEN MapSet(d, "Evidence", MapSetIn(MapGet(d, "Evidence"), "kani", key, v))
    ELSE d

\* The ways a document is changed: each touches one field.
DefectIds == 1..25
Defect(n, d) ==
    CASE n = 1 -> MapSet(d, "About", YStr(T_blank))
      [] n = 2 -> MapSet(d, "Prove", YSeq(<<>>))
      [] n = 3 -> MapSet(d, "Prove", YSeq(<<YPair("assert", E_true, T_ok),
                                            YPair("assert", E_true, T_empty)>>))
      [] n = 4 -> MapSet(d, "Assume", YSeq(<<YPair("expr", T_blank, T_ok)>>))
      [] n = 5 -> MapSet(d, "Prove", YSeq(<<YPair("assert", E_assign, T_ok)>>))
      [] n = 6 -> MapSet(d, "Witness", YSeq(<<YPair("cover", E_true, T_ok),
                                              YPair("cover", E_dangling, T_ok)>>))
      [] n = 7 -> MapSet(d, "Let", YMap(<<KV("r", YCall("call", T_ok)),
                                          KV("q", YCall("must", T_blank))>>))
      [] n = 8 -> MapSet(d, "Do", YSeq(<<YCall("call", T_empty)>>))
      [] n = 9 -> MapSet(d, "Do", YSeq(<<YCall("must", T_ok), YMaybe(T_blank, <<>>)>>))
      [] n = 10 -> MapSet(d, "Do", YSeq(<<YMaybe(T_ok, <<YCall("call", T_ok),
                                                         YMaybe(T_ok, <<>>)>>)>>))
      [] n = 11 -> MapSet(d, "Evidence", YMap(<<>>))
      [] n = 12 -> MapSet(d, "Evidence", YMap(<<KV("verus", YMap(<<KV("m", YBool(TRUE))>>))>>))
      [] n = 13 -> SetKani(d, "unwind", YInt(0))
      [] n = 14 -> MapSet(d, "Witness", YSeq(<<>>))
      [] n = 15 -> MapDel(d, "Witness")
      [] n = 16 -> SetKani(d, "allow_vacuous", YBool(TRUE))
      [] n = 17 -> SetKani(d, "allow_vacuous", YBool(FALSE))
      [] n = 18 -> SetKani(d, "vacuity_because", YStr(T_empty))
      [] n = 19 -> SetKani(d, "vacuity_because", YStr(T_ok))
      [] n = 20 -> MapSet(d, "Theorem", YStr(<<"f","n">>))
      [] n = 21 -> MapSet(d, "Theorem", YStr(<<"1","x">>))
      [] n = 22 -> MapSet(d, "Forall", YMap(<<KV(<<"n">>, YStr(<<"u","8">>)),
                                              KV(<<"l","e","t">>, YStr(<<"u","8">>))>>))
      [] n = 23 -> MapPrepend(d, "Bogus", YInt(1))
      [] n = 24 -> MapDel(d, "About")
      [] n = 25 -> MapSet(d, "Schema", YStr(T_ok))

\* A key the schema does not have, put at one nesting level of the document:
\* top level, assumption, assertion, witness, evidence, kani config, let
\* wrapper, step wrapper, maybe block, action call, action call of a nested
\* step.
UnknownIds == 1..11
ActionCallWithBogus ==
    YMap(<<KV("call", MapSet(MapGet(YCall("call", T_ok), "call"), "bogus", YInt(1)))>>)
Unknown(n, d) ==
    CASE n = 1 -> MapSet(d, "Bogus", YInt(1))
      [] n = 2 -> MapSet(d, "Assume",
                         YSeq(<<MapSet(YPair("expr", E_gt, T_ok), "note", YStr(T_ok))>>))
      [] n = 3 -> MapSet(d, "Prove",
                         YSeq(<<YPair("assert", E_true, T_ok),
                                MapSet(YPair("assert", E_true, T_ok), "note", YStr(T_ok))>>))
      [] n = 4 -> MapSet(d, "Witness",
                         YSeq(<<MapSet(YPair("cover", E_true, T_ok), "note", YStr(T_ok))>>))
      [] n = 5 -> MapSetIn(d, "Evidence", "coq", YBool(TRUE))
      [] n = 6 -> SetKani(d, "bound", YInt(3))
      [] n = 7 -> MapSet(d, "Let",
                         YMap(<<KV("r", MapSet(YCall("call", T_ok), "extra", YInt(1)))>>))
      [] n = 8 -> MapSet(d, "Do", YSeq(<<MapSet(YCall("must", T_ok), "extra", YInt(1))>>))
      [] n = 9 -> MapSet(d, "Do",
                         YSeq(<<YMap(<<KV("maybe",
                                MapSet(MapGet(YMaybe(T_ok, <<YCall("call", T_ok)>>), "maybe"),
                                       "else", YSeq(<<>>)))>>)>>))
      [] n = 10 -> MapSet(d, "Do", YSeq(<<YCall("call", T_ok), ActionCallWithBogus>>))
      [] n = 11 -> MapSet(d, "Do", YSeq(<<YMaybe(T_ok, <<ActionCallWithBogus>>)>>))

\* A document with the defects of D applied, the lowest number first.
RECURSIVE ApplyDefects(_, _)
ApplyDefects(D, d) ==
    IF D = {} THEN d
    ELSE LET n == Min(D) IN ApplyDefects(D \ {n}, Defect(n, d))

RECURSIVE SubsetsUpTo(_, _)
SubsetsUpTo(S, k) ==
    IF k = 0 THEN {{}}
    ELSE LET smaller == SubsetsUpTo(S, k - 1)
         IN  smaller \cup {T \cup {x} : T \in smaller, x \in S}

\* Single documents: a base document with at most MaxDefects defects.
DocPool == {ApplyDefects(D, b) : D \in SubsetsUpTo(DefectIds, MaxDefects), b \in BaseDocs}

\* Documents of multi-document texts, told apart by their names.
BatchDocs ==
    { MinimalDoc(<<"T">>), FullDoc, VacuousDoc,
      Defect(1, MinimalDoc(<<"A">>)), Defect(2, MinimalDoc(<<"B">>)),
      Defect(11, MinimalDoc(<<"C">>)), Defect(14, MinimalDoc(<<"D">>)),
      Defect(23, MinimalDoc(<<"E">>)), Defect(20, MinimalDoc(<<"G">>)) }

\* Single documents with a key the schema does not have, alone or next to one
\* defect.
UnknownPool ==
    {Unknown(n, ApplyDefects(D, b)) :
        n \in UnknownIds, D \in SubsetsUpTo(DefectIds, 1), b \in BaseDocs}

\* A document with the value v as an argument of an action call of Let, of
\* Do or of a step nested in a maybe block, or in a backend slot of Evidence.
YCallArg(kind, v) ==
    YMap(<<KV(kind, YMap(<<KV("action", YStr(T_ok)), KV("args", YMap(<<KV("n", v)>>))>>))>>)
ValuePlaces == {"let", "do", "maybe", "verus", "stateright"}
WithValue(place, v, d) ==
    CASE place = "let" -> MapSet(d, "Let", YMap(<<KV("r", YCallArg("must", v))>>))
      [] place = "do" -> MapSet(d, "Do", YSeq(<<YCall("call", T_ok), YCallArg("call", v)>>))
      [] place = "maybe" -> MapSet(d, "Do", YSeq(<<YMaybe(T_ok, <<YCallArg("must", v)>>)>>))
      [] place = "verus" -> MapSetIn(d, "Evidence", "verus", v)
      [] place = "stateright" -> MapSetIn(d, "Evidence", "stateright", v)

\* Values with a null in them: the null itself, in a sequence, in a mapping,
\* and two levels down.
NullValues ==
    { YNull,
      YSeq(<<YInt(1), YNull>>),
      YMap(<<KV("k", YStr(T_ok)), KV("j", YNull)>>),
      YMap(<<KV("k", YSeq(<<YMap(<<KV("j", YNull)>>)>>))>>) }

\* Single documents, valid but for a null where a value is expected.
NullPool == {WithValue(place, v, b) : place \in ValuePlaces, v \in NullValues, b \in BaseDocs}

Texts ==
    {<<d>> : d \in DocPool \cup UnknownPool \cup NullPool}
        \cup UNION {[1..n -> BatchDocs] : n \in 1..MaxDocs}

\* Documents for the non-blank and expression rules: Prove, Assume and Witness
\* lists of entries whose fields are a good text, a blank one, a statement or an
\* expression with white space around it.
E_padded_gt == <<" ">> \o E_gt \o <<" ">>
E_padded_assign == <<"\t">> \o E_assign \o <<" ">>
FieldEntries ==
    { <<E_true, T_ok>>, <<T_blank, T_ok>>, <<E_true, T_empty>>, <<T_blank, T_blank>>,
      <<E_padded_assign, T_ok>>, <<E_padded_gt, T_padded>> }
WitnessEntries == { <<E_true, T_ok>>, <<T_empty, T_ok>>, <<E_gt, T_blank>> }
EntryLists(entries, lo, hi) == UNION {[1..n -> entries] : n \in lo..hi}
YPairs(k1, list) == YSeq([i \in DOMAIN list |-> YPair(k1, list[i][1], list[i][2])])
FieldDoc(prove, assume, witness) ==
    YMap(<< KV("Theorem", YStr(<<"T">>)),
            KV("About", YStr(T_ok)),
            KV("Prove", YPairs("assert", prove)),
            KV("Assume", YPairs("expr", assume)),
            KV("Witness", YPairs("cover", witness)),
            KV("Evidence", YMap(<<KV("kani", YKani(1))>>)) >>)
\* Documents for the step rules: one Do tree of ten steps, three maybe blocks
\* deep, with a blank action, a blank justification or an empty nested list at
\* the steps named by D.
TreeCall(kind, id, D) == YCall(kind, IF <<id, "action">> \in D THEN T_blank ELSE T_ok)
TreeMaybe(id, D, steps) ==
    YMaybe(IF <<id, "because">> \in D THEN T_empty ELSE T_ok,
           IF <<id, "empty">> \in D THEN <<>> ELSE steps)
StepTree(D) ==
    << TreeCall("call", 1, D),
       TreeMaybe(2, D, << TreeCall("must", 3, D),
                          TreeMaybe(4, D, << TreeCall("call", 5, D),
                                             TreeMaybe(6, D, <<TreeCall("must", 7, D)>>) >>) >>),
       TreeMaybe(8, D, << TreeMaybe(9, D, <<TreeCall("call", 10, D)>>),
                          TreeCall("must", 11, D) >>) >>
StepDefects ==
    {<<id, "action">> : id \in {1, 3, 5, 7, 10, 11}}
        \cup {<<id, kind>> : id \in {2, 4, 6, 8, 9}, kind \in {"because", "empty"}}
StepTexts ==
    { <<MapSet(MinimalDoc(<<"T">>), "Do", YSeq(StepTree(D)))>> :
        D \in SubsetsUpTo(StepDefects, MaxDefects) }

\* Documents for the Let rule: Let sections of one or two entries, each a call,
\* a must, a maybe block, both call and must, no key, another key, a call next
\* to another key, or a string.
LetForms ==
    { YCall("call", T_ok), YCall("must", T_ok),
      YMaybe(T_ok, <<YCall("call", T_ok)>>),
      YMap(<<KV("call", MapGet(YCall("call", T_ok), "call")),
             KV("must", MapGet(YCall("must", T_ok), "must"))>>),
      YMap(<<>>),
      YMap(<<KV("run", MapGet(YCall("call", T_ok), "call"))>>),
      MapSet(YCall("must", T_ok), "maybe", MapGet(YMaybe(T_ok, <<YCall("call", T_ok)>>), "maybe")),
      YStr(T_ok) }
LetTexts ==
    { <<MapSet(MinimalDoc(<<"T">>), "Let", YMap(<<KV("r", a)>>))>> : a \in LetForms }
        \cup { <<MapSet(FullDoc, "Let", YMap(<<KV("r", a), KV("q", b)>>))>> :
                 a \in LetForms, b \in LetForms }

FieldTexts ==
    { <<FieldDoc(prove, assume, witness)>> :
        prove \in EntryLists(FieldEntries, 1, MaxLists),
        assume \in EntryLists(FieldEntries, 0, 1),
        witness \in EntryLists(WitnessEntries, 0, MaxLists) }

(***************************************************************************)
(* Specifications.                                                         *)
(***************************************************************************)
IdleIdent == ident = Idle /\ ident_result = Idle
IdleNames == newtype = Idle /\ out = Idle
IdleCall == call = Idle /\ ret = Idle
IdlePar == threads = Idle /\ keywords = Idle
IdleLoad ==
    /\ input = Idle /\ result = Idle /\ doc = Idle /\ vresult = Idle
    /\ input2 = Idle /\ result2 = Idle

\* validate_identifier, called on a string.
InitIdent ==
    /\ IdlePar
    /\ ident \in IdentInputs /\ ident_result = Idle
    /\ IdleNames /\ IdleLoad /\ IdleCall

ValidateIdentifier ==
    /\ ident_result = Idle
    /\ ident_result' = validate_identifier(ident)
    /\ UNCHANGED <<ident, nameVars, loadVars, callVars, parVars>>

NextIdent == ValidateIdentifier

SpecIdent == InitIdent /\ [][NextIdent]_vars

\* load_theorem_docs called on a text, and validate_theorem_doc called on a
\* document deserialized from it.
InitLoad ==
    /\ IdlePar
    /\ input \in Texts
    /\ result = Idle /\ doc = Idle /\ vresult = Idle
    /\ input2 = Idle /\ result2 = Idle
    /\ IdleIdent /\ IdleNames /\ IdleCall

Load ==
    /\ result = Idle
    /\ result' = load_theorem_docs(input)
    /\ UNCHANGED <<input, doc, vresult, input2, result2, identVars, nameVars, callVars, parVars>>

ValidateTheoremDoc ==
    /\ doc = Idle
    /\ LET docs == from_multiple(input)
       IN  /\ docs.ok
           /\ \E i \in DOMAIN docs.val :
                /\ doc' = docs.val[i]
                /\ vresult' = validate_theorem_doc(docs.val[i])
    /\ UNCHANGED <<input, result, input2, result2, identVars, nameVars, callVars, parVars>>

NextLoad == Load \/ ValidateTheoremDoc

SpecLoad == InitLoad /\ [][NextLoad]_vars

\* A TheoremName or ForallVar is built, by new() or by deserialization, then
\* read; and a text is loaded.
NameTexts ==
    { <<FullDoc>>, <<MinimalDoc(<<"T">>)>>, <<Defect(20, FullDoc)>>, <<Defect(22, FullDoc)>>,
      <<Defect(21, MinimalDoc(<<"T">>))>>, <<MinimalDoc(<<"T">>), FullDoc>> }

InitNames ==
    /\ IdlePar
    /\ newtype = Idle /\ out = Idle
    /\ input \in NameTexts
    /\ result = Idle /\ doc = Idle /\ vresult = Idle
    /\ input2 = Idle /\ result2 = Idle
    /\ IdleIdent /\ IdleCall

Construct(r, op) ==
    /\ newtype = Idle /\ out = Idle
    /\ out' = [op |-> op, ret |-> r]
    /\ newtype' = IF r.ok THEN r.val ELSE Idle
    /\ UNCHANGED <<identVars, loadVars, callVars, parVars>>

TheoremNameNew == \E s \in IdentInputs : Construct(TheoremName_new(s), "new")
ForallVarNew == \E s \in IdentInputs : Construct(ForallVar_new(s), "new")
TheoremNameDeserialize ==
    \E s \in IdentInputs : Construct(TheoremName_deserialize(YStr(s)), "deserialize")
ForallVarDeserialize ==
    \E s \in IdentInputs : Construct(ForallVar_deserialize(YStr(s)), "deserialize")

AsStr ==
    /\ newtype # Idle
    /\ out' = [op |-> "as_str", ret |-> as_str(newtype)]
    /\ UNCHANGED <<newtype, identVars, loadVars, callVars, parVars>>

Clone ==
    /\ newtype # Idle
    /\ out' = [op |-> "clone", ret |-> clone(newtype)]
    /\ UNCHANGED <<newtype, identVars, loadVars, callVars, parVars>>

NextNames ==
    \/ TheoremNameNew \/ ForallVarNew \/ TheoremNameDeserialize \/ ForallVarDeserialize
    \/ AsStr \/ Clone \/ Load

SpecNames == InitNames /\ [][NextNames]_vars

\* The same content under either spelling of each top-level key: input2 has the
\* canonical keys, input the lowercase alias for the keys of one chosen set.
TopLevelKeys ==
    {"Schema", "Theorem", "About", "Tags", "Given", "Forall", "Assume", "Witness", "Let",
     "Do", "Prove", "Evidence"}

LowercaseAlias(key) ==
    CASE key = "Schema" -> "schema" [] key = "Theorem" -> "theorem"
      [] key = "About" -> "about" [] key = "Tags" -> "tags"
      [] key = "Given" -> "given" [] key = "Forall" -> "forall"
      [] key = "Assume" -> "assume" [] key = "Witness" -> "witness"
      [] key = "Let" -> "let" [] key = "Do" -> "do"
      [] key = "Prove" -> "prove" [] key = "Evidence" -> "evidence"

LowercaseKeys(d, L) ==
    YMap([i \in DOMAIN d.entries |->
            IF d.entries[i].k \in L
            THEN KV(LowercaseAlias(d.entries[i].k), d.entries[i].v)
            ELSE d.entries[i]])

AliasDocs ==
    {FullDoc, Defect(2, FullDoc), Defect(20, FullDoc), Defect(24, FullDoc)}

InitAlias ==
    /\ IdlePar
    /\ \E d \in AliasDocs, L \in SUBSET TopLevelKeys :
         /\ input2 = <<d>>
         /\ input = <<LowercaseKeys(d, L)>>
    /\ result = Idle /\ result2 = Idle /\ doc = Idle /\ vresult = Idle
    /\ IdleIdent /\ IdleNames /\ IdleCall

Load2 ==
    /\ result2 = Idle
    /\ result2' = load_theorem_docs(input2)
    /\ UNCHANGED <<input, result, doc, vresult, input2, identVars, nameVars, callVars, parVars>>

NextAlias == Load \/ Load2

SpecAlias == InitAlias /\ [][NextAlias]_vars

\* validate_rust_expr, called on an expression text.
ExprInputs ==
    {SynTable[i][1] : i \in DOMAIN SynTable}
        \cup {<<"a", token, "b">> : token \in BinOpTokens}
        \cup {E_true, E_gt, E_assign, E_add_assign, E_block, E_paren_assign, E_dangling}
        \cup {<<>>, <<"if", "{", "}">>, <<"not", "rust", "code", "%%">>}

InitExpr ==
    /\ IdlePar
    /\ call \in {[fn |-> "validate_rust_expr", arg |-> text] : text \in ExprInputs}
    /\ ret = Idle
    /\ IdleIdent /\ IdleNames /\ IdleLoad

ValidateRustExpr ==
    /\ call.fn = "validate_rust_expr"
    /\ ret = Idle
    /\ ret' = validate_rust_expr(call.arg)
    /\ UNCHANGED <<call, identVars, nameVars, loadVars, parVars>>

NextExpr == ValidateRustExpr

SpecExpr == InitExpr /\ [][NextExpr]_vars

\* A value is deserialized, or the visitor is handed an integer.
MapKeys == {"a", "b", "c"}
MapValues == {YInt(1), YInt(2)}
FlatMaps == {YMap(es) : es \in SeqsUpTo({KV(k, v) : k \in MapKeys, v \in MapValues}, MaxLen)}
NestedMaps ==
    { YSeq(<<YMap(<<KV("a", YInt(1)), KV("a", YInt(2))>>)>>),
      YMap(<<KV("b", YInt(1)), KV("a", YMap(<<KV("c", YInt(1)), KV("c", YInt(1))>>))>>),
      YMap(<<KV("b", YMap(<<KV("b", YInt(1))>>)), KV("a", YSeq(<<YInt(1), YInt(1)>>))>>) }
ValueNodes ==
    {YInt(n) : n \in I64_MIN..U64_MAX} \cup FlatMaps \cup NestedMaps \cup NullValues
        \cup {YBool(TRUE), YStr(T_ok), YSeq(<<YStr(T_ok), YBool(FALSE)>>)}

InitValue ==
    /\ IdlePar
    /\ call \in {[fn |-> "visit_i64", arg |-> v] : v \in I64_MIN..I64_MAX}
                \cup {[fn |-> "visit_u64", arg |-> v] : v \in 0..U64_MAX}
                \cup {[fn |-> "deserialize", arg |-> node] : node \in ValueNodes}
    /\ ret = Idle
    /\ IdleIdent /\ IdleNames /\ IdleLoad

VisitI64 ==
    /\ call.fn = "visit_i64"
    /\ ret = Idle
    /\ ret' = visit_i64(call.arg)
    /\ UNCHANGED <<call, identVars, nameVars, loadVars, parVars>>

VisitU64 ==
    /\ call.fn = "visit_u64"
    /\ ret = Idle
    /\ ret' = visit_u64(call.arg)
    /\ UNCHANGED <<call, identVars, nameVars, loadVars, parVars>>

DeserializeValue ==
    /\ call.fn = "deserialize"
    /\ ret = Idle
    /\ ret' = TheoremValue_deserialize(call.arg)
    /\ UNCHANGED <<call, identVars, nameVars, loadVars, parVars>>

NextValue == VisitI64 \/ VisitU64 \/ DeserializeValue

SpecValue == InitValue /\ [][NextValue]_vars

\* Several calls of load_theorem_docs run at once.  A call is the steps of
\* its body: the deserialization of the whole text, then one iteration of the
\* loop per document, then the return; the steps of different calls
\* interleave in any order.
MaxTasks == 2
Tasks == 1..MaxTasks
ParTexts ==
    { <<FullDoc>>, <<MinimalDoc(<<"T">>), VacuousDoc>>,
      <<Defect(20, FullDoc)>>, <<MinimalDoc(<<"T">>), Defect(22, FullDoc)>>,
      <<FullDoc, Defect(2, MinimalDoc(<<"B">>))>>, <<Defect(11, MinimalDoc(<<"C">>)), FullDoc>>,
      <<Defect(1, MinimalDoc(<<"A">>))>> }

\* Every call deserializing the text of the first call, as if the text were
\* kept in a buffer the calls share.
load_step_shared_buffer(ts, t) ==
    LET me == ts[t]
    IN  CASE me.pc = "start" ->
                LET docs == from_multiple(ts[1].input)
                IN  IF ~docs.ok
                    THEN [me EXCEPT !.pc = "done", !.result = Err(Deserialize(docs.err))]
                    ELSE [me EXCEPT !.pc = "loop", !.docs = docs.val, !.i = 1]
          [] me.pc = "loop" ->
                IF me.i > Len(me.docs)
                THEN [me EXCEPT !.pc = "done", !.result = Ok(me.docs)]
                ELSE LET r == load_check_doc(me.docs[me.i])
                     IN  IF ~r.ok THEN [me EXCEPT !.pc = "done", !.result = r]
                         ELSE [me EXCEPT !.i = me.i + 1]

\* One step of call t: its locals after the step.
load_step(ts, t) ==
    LET me == ts[t]
    IN  CASE me.pc = "start" ->
                LET docs == from_multiple(me.input)
                IN  IF ~docs.ok
                    THEN [me EXCEPT !.pc = "done", !.result = Err(Deserialize(docs.err))]
                    ELSE [me EXCEPT !.pc = "loop", !.docs = docs.val, !.i = 1]
          [] me.pc = "loop" ->
                IF me.i > Len(me.docs)
                THEN [me EXCEPT !.pc = "done", !.result = Ok(me.docs)]
                ELSE LET r == load_check_doc(me.docs[me.i])
                     IN  IF ~r.ok THEN [me EXCEPT !.pc = "done", !.result = r]
                         ELSE [me EXCEPT !.i = me.i + 1]

InitPar ==
    /\ threads \in [Tasks -> {[pc |-> "start", input |-> text, docs |-> <<>>, i |-> 0,
                               result |-> Idle] : text \in ParTexts}]
    /\ keywords = RUST_KEYWORDS
    /\ IdleIdent /\ IdleNames /\ IdleLoad /\ IdleCall

LoadStep ==
    \E t \in Tasks :
        /\ threads[t].pc # "done"
        /\ threads' = [threads EXCEPT ![t] = load_step(threads, t)]
        /\ UNCHANGED <<keywords, identVars, nameVars, loadVars, callVars>>

NextPar == LoadStep

SpecPar == InitPar /\ [][NextPar]_vars

\* A text is loaded under a source identifier.
SourceIds == {"tests/fixtures/invalid_unknown_key.theorem", "inline.theorem"}

\* A document with eleven assertions; the last one has its justification
\* first, and blank.
LongDoc ==
    MapSet(MinimalDoc(<<"L">>), "Prove",
           YSeq([i \in 1..11 |->
                   IF i < 11 THEN YPair("assert", E_true, T_ok)
                   ELSE YMap(<<KV("because", YStr(T_blank)), KV("assert", YStr(E_true))>>)]))

\* The texts loaded under a source identifier: single documents with one
\* defect fewer than those of Texts, the same batches, and the long document.
SourceTexts ==
    {<<ApplyDefects(D, b)>> : D \in SubsetsUpTo(DefectIds, MaxDefects - 1), b \in BaseDocs}
        \cup {<<Defect(14, Defect(18, b))>> : b \in BaseDocs}
        \cup {<<WithValue(place, YNull, FullDoc)>> : place \in ValuePlaces}
        \cup UNION {[1..n -> BatchDocs] : n \in 1..MaxDocs}
        \cup {<<LongDoc>>, <<FullDoc, LongDoc>>}

InitSource ==
    /\ IdlePar
    /\ input \in SourceTexts
    /\ call \in {[fn |-> "load_theorem_docs_with_source", arg |-> source] :
                    source \in SourceIds}
    /\ ret = Idle
    /\ result = Idle /\ doc = Idle /\ vresult = Idle
    /\ input2 = Idle /\ result2 = Idle
    /\ IdleIdent /\ IdleNames

LoadWithSource ==
    /\ call.fn = "load_theorem_docs_with_source"
    /\ ret = Idle
    /\ ret' = load_theorem_docs_with_source(call.arg, input)
    /\ UNCHANGED <<call, identVars, nameVars, loadVars, parVars>>

NextSource == LoadWithSource \/ Load

SpecSource == InitSource /\ [][NextSource]_vars

\* load_theorem_docs and validate_theorem_doc called on the documents for the
\* field rules, for the step rules and for the Let rule.
RuleTexts == FieldTexts \cup StepTexts \cup LetTexts

InitRules ==
    /\ IdlePar
    /\ input \in RuleTexts
    /\ result = Idle /\ doc = Idle /\ vresult = Idle
    /\ input2 = Idle /\ result2 = Idle
    /\ IdleIdent /\ IdleNames /\ IdleCall

NextRules == Load \/ ValidateTheoremDoc

SpecRules == InitRules /\ [][NextRules]_vars

\* The sections whose failures are indexed: the prefix of the message, the
\* keys of the section and the key of its expression field.
IndexedSections ==
    { [prefix |-> <<"Prove assertion">>, keys |-> {"Prove", "prove"}, field |-> "assert"],
      [prefix |-> <<"Assume constraint">>, keys |-> {"Assume", "assume"}, field |-> "expr"],
      [prefix |-> <<"Witness">>, keys |-> {"Witness", "witness"}, field |-> "cover"] }

\* location_for_validation_reason called on the raw document of a text and on
\* a reason: the reasons of the validator, and strings that only look like
\* them.
LocateDocs ==
    { MinimalDoc(<<"T">>), FullDoc, VacuousDoc, LongDoc,
      Defect(12, MinimalDoc(<<"T">>)), Defect(15, MinimalDoc(<<"T">>)),
      Defect(16, MinimalDoc(<<"T">>)), Defect(18, FullDoc) }

NonEmptyTail(field) == <<field, " ", "must be non-empty after trimming">>

FallbackReasons ==
    { <<"Let binding '", "r", "'", ":", " ">> \o validate_action_call([action |-> <<>>]).err,
      Indexed(<<"Do step">>, 1) \o validate_action_call([action |-> <<>>]).err,
      Indexed(Indexed(<<"Do step">>, 2) \o <<"maybe.do step">>, 1) \o NonEmptyTail("maybe.because"),
      Indexed(<<"Do step">>, 2) \o <<"maybe.do must contain at least one step">>,
      <<"Prove section must contain at least one assertion">>,
      <<"Evidence section must specify at least one backend (kani, verus, or stateright)">>,
      <<"Witness", " ",
        "section must contain at least one witness when allow_vacuous is false (the default)">> }

IndexedReasons ==
    UNION { { Indexed(sec.prefix, n) \o tail :
                n \in {0, 1, 2, 3, 11, 12},
                tail \in {NonEmptyTail("because"), NonEmptyTail(sec.field)} } :
            sec \in IndexedSections }

KaniReasons ==
    { <<"Evidence.kani.unwind", " must be a positive integer (> 0)">>,
      <<"vacuity_because is required when allow_vacuous is true">>,
      <<"Evidence.kani.vacuity_because must be non-empty", " after trimming">> }

OddReasons ==
    { <<>>, <<"Witness", " ">>, <<"Witness", " ", "1">>, <<"Witness", " ", "x", ":", " ">>,
      <<"Witness", " ", " ", "1", " ", ":", " ">> \o NonEmptyTail("cover"),
      <<"Prove assertion", " ", "-", "1", ":", " ">> \o NonEmptyTail("assert"),
      <<"Witness", "1", ":", " ">> \o NonEmptyTail("cover"),
      <<"About must be non-empty", " after trimming">>, <<"About">> }

LocateReasons == FallbackReasons \cup IndexedReasons \cup KaniReasons \cup OddReasons

InitLocate ==
    /\ IdlePar
    /\ input \in {<<d>> : d \in LocateDocs}
    /\ call \in {[fn |-> "location_for_validation_reason", arg |-> reason] :
                    reason \in LocateReasons}
    /\ ret = Idle
    /\ result = Idle /\ doc = Idle /\ vresult = Idle
    /\ input2 = Idle /\ result2 = Idle
    /\ IdleIdent /\ IdleNames

LocationForValidationReason ==
    /\ call.fn = "location_for_validation_reason"
    /\ ret = Idle
    /\ \E placed \in {PlaceDocuments(input)} :
         \E raws \in {deserialize_vec(TStruct("RawTheoremDoc"), placed, 1, <<>>)} :
            /\ raws.ok
            /\ ret' = location_for_validation_reason(raws.val[1], call.arg)
    /\ UNCHANGED <<call, identVars, nameVars, loadVars, parVars>>

NextLocate == LocationForValidationReason

SpecLocate == InitLocate /\ [][NextLocate]_vars

\* The control flow of a call, one step of it at a time.  load_theorem_docs:
\* from_multiple, then the loop over the documents, then the return; parsed is
\* what serde_saphyr::from_multiple makes of the text, which the call obtains
\* in its first step.
\* validate_step_list: a stack with one frame per active call of
\* validate_step_list, each with its list, its path and the position of its
\* loop; visited and revisited are the steps entered once and more than
\* once, each named by the positions that lead to it; depth is the largest
\* number of calls of validate_step_list that were active below the first.
load_frame(parsed) ==
    [fn |-> "load_theorem_docs", pc |-> "from_multiple", parsed |-> parsed,
     docs |-> <<>>, i |-> 0]

step_frame(steps, path) == [steps |-> steps, path |-> path, i |-> 1]

steps_frame(steps) ==
    [fn |-> "validate_step_list", stack |-> <<step_frame(steps, <<"Do step">>)>>,
     visited |-> {}, revisited |-> {}, depth |-> 0]

\* The positions of the loops of the active calls: the step being looked at.
position(stack) == [k \in DOMAIN stack |-> stack[k].i]

\* The loop of the innermost call stays where it is.
advance_stuck(stack) == stack

\* The loop of the innermost call moves to its next step.
advance(stack) ==
    [stack EXCEPT ![Len(stack)] = [stack[Len(stack)] EXCEPT !.i = stack[Len(stack)].i + 1]]

TermTexts ==
    StepTexts \cup LetTexts \cup UNION {[1..n -> BatchDocs] : n \in 1..MaxDocs}

InitTerm ==
    /\ IdlePar
    /\ input \in TermTexts
    /\ call \in {load_frame(from_multiple(input))} \cup
                 (IF from_multiple(input).ok
                  THEN {steps_frame(from_multiple(input).val[1].do_steps)} ELSE {})
    /\ ret = Idle
    /\ result = Idle /\ doc = Idle /\ vresult = Idle
    /\ input2 = Idle /\ result2 = Idle
    /\ IdleIdent /\ IdleNames

FromMultiple ==
    /\ call.fn = "load_theorem_docs" /\ call.pc = "from_multiple"
    /\ IF call.parsed.ok
       THEN /\ call' = [call EXCEPT !.pc = "loop", !.docs = call.parsed.val, !.i = 1]
            /\ ret' = ret
       ELSE /\ call' = [call EXCEPT !.pc = "returned"]
            /\ ret' = Err(Deserialize(call.parsed.err))
    /\ UNCHANGED <<identVars, nameVars, loadVars, parVars>>

LoopDoc ==
    /\ call.fn = "load_theorem_docs" /\ call.pc = "loop"
    /\ call.i <= Len(call.docs)
    /\ \E r \in {load_check_doc(call.docs[call.i])} :
          IF r.ok
          THEN /\ call' = [call EXCEPT !.i = call.i + 1]
               /\ ret' = ret
          ELSE /\ call' = [call EXCEPT !.pc = "returned"]
               /\ ret' = r
    /\ UNCHANGED <<identVars, nameVars, loadVars, parVars>>

LoopEnd ==
    /\ call.fn = "load_theorem_docs" /\ call.pc = "loop"
    /\ call.i > Len(call.docs)
    /\ call' = [call EXCEPT !.pc = "returned"]
    /\ ret' = Ok(call.docs)
    /\ UNCHANGED <<identVars, nameVars, loadVars, parVars>>

\* The record of a step being entered.
enter(c) ==
    [c EXCEPT !.visited = c.visited \cup {position(c.stack)},
              !.revisited = IF position(c.stack) \in c.visited
                            THEN c.revisited \cup {position(c.stack)} ELSE c.revisited]

\* validate_step on a call or a must step.
VisitAction ==
    /\ call.fn = "validate_step_list" /\ call.stack # <<>>
    /\ LET top == call.stack[Len(call.stack)]
       IN  /\ top.i <= Len(top.steps)
           /\ top.steps[top.i].variant # "Maybe"
           /\ \E r \in {validate_step(top.steps[top.i], top.path, top.i)} :
                 IF r.ok
                 THEN /\ call' = [enter(call) EXCEPT !.stack = advance(call.stack)]
                      /\ ret' = ret
                 ELSE /\ call' = [enter(call) EXCEPT !.stack = <<>>]
                      /\ ret' = r
    /\ UNCHANGED <<identVars, nameVars, loadVars, parVars>>

\* validate_maybe_block up to the nested call of validate_step_list.
VisitMaybe ==
    /\ call.fn = "validate_step_list" /\ call.stack # <<>>
    /\ LET top == call.stack[Len(call.stack)]
           maybe == top.steps[top.i].v.maybe
       IN  /\ top.i <= Len(top.steps)
           /\ top.steps[top.i].variant = "Maybe"
           /\ IF trim(maybe.because) = <<>>
              THEN /\ call' = [enter(call) EXCEPT !.stack = <<>>]
                   /\ ret' = Err(Indexed(top.path, top.i)
                                    \o <<"maybe.because", " ", "must be non-empty after trimming">>)
              ELSE IF Len(maybe.do_steps) = 0
              THEN /\ call' = [enter(call) EXCEPT !.stack = <<>>]
                   /\ ret' = Err(Indexed(top.path, top.i)
                                    \o <<"maybe.do must contain at least one step">>)
              ELSE /\ call' = [enter(call) EXCEPT
                                  !.stack = Append(call.stack,
                                      step_frame(maybe.do_steps,
                                                 Indexed(top.path, top.i) \o <<"maybe.do step">>)),
                                  !.depth = IF Len(call.stack) > call.depth
                                            THEN Len(call.stack) ELSE call.depth]
                   /\ ret' = ret
    /\ UNCHANGED <<identVars, nameVars, loadVars, parVars>>

\* The loop of a call of validate_step_list is over: Ok(()) goes to the caller,
\* whose loop moves on, or out of the outermost call.
ReturnList ==
    /\ call.fn = "validate_step_list" /\ call.stack # <<>>
    /\ LET top == call.stack[Len(call.stack)]
       IN  /\ top.i > Len(top.steps)
           /\ IF Len(call.stack) = 1
              THEN /\ call' = [call EXCEPT !.stack = <<>>]
                   /\ ret' = Ok(Unit)
              ELSE /\ call' = [call EXCEPT
                                  !.stack = advance(SubSeq(call.stack, 1, Len(call.stack) - 1))]
                   /\ ret' = ret
    /\ UNCHANGED <<identVars, nameVars, loadVars, parVars>>

NextTerm == FromMultiple \/ LoopDoc \/ LoopEnd \/ VisitAction \/ VisitMaybe \/ ReturnList

SpecTerm == InitTerm /\ [][NextTerm]_vars

\* The code is sequential and never waits: a call that can take a step takes
\* it.
SpecTermFair == SpecTerm /\ WF_vars(NextTerm)

(***************************************************************************)
(* Properties of the identifier validator (SpecIdent).                     *)
(***************************************************************************)
\* ^[A-Za-z_][A-Za-z0-9_]*$, read off the regular expression.
HeadChars == LowerChars \cup UpperChars \cup {"_"}
TailChars == HeadChars \cup DigitChars
MatchesPattern(s) ==
    /\ Len(s) >= 1
    /\ s[1] \in HeadChars
    /\ \A i \in 2..Len(s) : s[i] \in TailChars

InReservedTable(s) == \E k \in RUST_KEYWORDS : k = s

\* C4: validate_identifier(s) returns Ok if and only if s matches
\* ^[A-Za-z_][A-Za-z0-9_]*$ and s is not, by exact case-sensitive equality, an
\* element of the reserved-word table.
C4_IdentifierInvariant ==
    ident_result # Idle =>
        (ident_result.ok <=> (MatchesPattern(ident) /\ ~InReservedTable(ident)))

\* Both directions have been exercised: 'self' and 'Self' rejected as reserved,
\* 'lets', 'types' and 'Fn' accepted.
C4_Witness ==
    /\ ident_result # Idle
    /\ \/ ident = <<"l","e","t","s">> /\ ident_result.ok
       \/ ident = <<"S","e","l","f">> /\ ~ident_result.ok

\* C5: a rejected string gets exactly one reason, the one naming the condition
\* that fails: empty, then pattern, then reserved keyword; the keyword reason is
\* never given to a string failing the pattern, nor the pattern reason to a
\* reserved word.
C5_RejectionReason ==
    (ident_result # Idle /\ ~ident_result.ok) =>
        /\ ident_result.err.kind = "InvalidIdentifier"
        /\ ident_result.err.identifier = ident
        /\ ident_result.err.reason =
             (IF ident = <<>> THEN REASON_EMPTY
              ELSE IF ~MatchesPattern(ident) THEN REASON_PATTERN
              ELSE REASON_KEYWORD)
        /\ (ident_result.err.reason = REASON_KEYWORD =>
              MatchesPattern(ident) /\ InReservedTable(ident))
        /\ (ident_result.err.reason = REASON_PATTERN => ~InReservedTable(ident))

\* The empty string has been rejected with its own reason.
C5_Witness ==
    /\ ident_result # Idle /\ ~ident_result.ok
    /\ ident = <<>>
    /\ ident_result.err.reason = REASON_EMPTY

(***************************************************************************)
(* Properties of the loader and of the validator (SpecLoad).               *)
(***************************************************************************)
\* The eight rules of the validator, each stated on the document alone.
Blank(s) == \A i \in DOMAIN s : s[i] \in WhiteChars

ActionOf(w) == IF w.variant = "Call" THEN w.v.call.action ELSE w.v.must.action

RECURSIVE BadStepTree(_)
BadStepTree(steps) ==
    \E i \in DOMAIN steps :
        IF steps[i].variant = "Maybe"
        THEN \/ Blank(steps[i].v.maybe.because)
             \/ steps[i].v.maybe.do_steps = <<>>
             \/ BadStepTree(steps[i].v.maybe.do_steps)
        ELSE Blank(ActionOf(steps[i]))

ExprTexts(d) ==
    {d.assume[i].expr : i \in DOMAIN d.assume}
        \cup {d.prove[i].assert_expr : i \in DOMAIN d.prove}
        \cup {d.witness[i].cover : i \in DOMAIN d.witness}

BadKani(d) ==
    /\ d.evidence.kani.some
    /\ LET kani == d.evidence.kani.v
       IN  \/ kani.unwind = 0
           \/ kani.allow_vacuous /\ ~kani.vacuity_because.some
           \/ kani.vacuity_because.some /\ Blank(kani.vacuity_because.v)
           \/ ~kani.allow_vacuous /\ d.witness = <<>>

Violates(d, rule) ==
    CASE rule = 1 -> Blank(d.about)
      [] rule = 2 -> d.prove = <<>>
      [] rule = 3 ->
            \/ \E i \in DOMAIN d.prove : Blank(d.prove[i].assert_expr) \/ Blank(d.prove[i].because)
            \/ \E i \in DOMAIN d.assume : Blank(d.assume[i].expr) \/ Blank(d.assume[i].because)
            \/ \E i \in DOMAIN d.witness : Blank(d.witness[i].cover) \/ Blank(d.witness[i].because)
      [] rule = 4 -> \E e \in ExprTexts(d) : ~Blank(e) /\ ~validate_rust_expr(trim(e)).ok
      [] rule = 5 -> \E i \in DOMAIN d.let_bindings : Blank(ActionOf(d.let_bindings[i].v))
      [] rule = 6 -> BadStepTree(d.do_steps)
      [] rule = 7 ->
            ~d.evidence.kani.some /\ ~d.evidence.verus.some /\ ~d.evidence.stateright.some
      [] rule = 8 -> BadKani(d)

Violated(d) == {rule \in 1..8 : Violates(d, rule)}

\* The rule a validation message belongs to.
RuleOfReason(r) ==
    IF r[1] = "About must be non-empty" THEN 1
    ELSE IF r[1] = "Prove section must contain at least one assertion" THEN 2
    ELSE IF r[1] \in {"Prove assertion", "Assume constraint", "Witness"}
    THEN IF r[Len(r)] = "must be non-empty after trimming" THEN 3
         ELSE IF r[1] = "Witness" /\ r[2] = " " /\ Len(r) = 3 THEN 8
         ELSE 4
    ELSE IF r[1] = "Let binding '" THEN 5
    ELSE IF r[1] = "Do step" THEN 6
    ELSE IF r[1] = "Evidence section must specify at least one backend (kani, verus, or stateright)"
    THEN 7
    ELSE 8

\* C1: whenever load returns Ok, every returned document satisfies every rule
\* of the validator.
C1_LoaderSound ==
    (result # Idle /\ result.ok) =>
        \A i \in DOMAIN result.val :
            /\ Violated(result.val[i]) = {}
            /\ validate_theorem_doc(result.val[i]).ok

\* C2: for a document violating two or more rules the validator reports one
\* error, and it belongs to the earliest violated rule of the fixed order.
C2_FailFastOrder ==
    (vresult # Idle /\ Cardinality(Violated(doc)) >= 2) =>
        /\ ~vresult.ok
        /\ vresult.err.kind = "ValidationFailed"
        /\ RuleOfReason(vresult.err.reason) = Min(Violated(doc))

\* The validator has run on a document violating a pair of rules whose
\* earlier one is not the first of the order.
C2_Witness ==
    /\ vresult # Idle
    /\ Violated(doc) = {4, 8}
    /\ ~vresult.ok
    /\ RuleOfReason(vresult.err.reason) = 4

\* C3: on an otherwise valid document with the kani backend, load decides by
\* the vacuity matrix: rejected when allow_vacuous is false and there is no
\* witness, accepted when it is false and there is one, rejected when it is
\* true and vacuity_because is absent or blank, accepted when it is true and
\* vacuity_because is non-blank.
C3_VacuityMatrix ==
    (result # Idle /\ Len(input) = 1 /\ from_multiple(input).ok) =>
        LET d == from_multiple(input).val[1]
            kani == d.evidence.kani.v
            reason == kani.vacuity_because
        IN  (Violated(d) \subseteq {8} /\ d.evidence.kani.some /\ kani.unwind > 0) =>
                /\ (~kani.allow_vacuous /\ d.witness = <<>>) => ~result.ok
                /\ (~kani.allow_vacuous /\ d.witness # <<>> /\ ~reason.some) => result.ok
                /\ (kani.allow_vacuous /\ ~reason.some) => ~result.ok
                /\ (kani.allow_vacuous /\ reason.some /\ Blank(reason.v)) => ~result.ok
                /\ (kani.allow_vacuous /\ reason.some /\ ~Blank(reason.v)) => result.ok

\* The illegal identifiers a top-level entry of a YAML document holds: its
\* Theorem name, or its Forall keys.
Legal(s) == MatchesPattern(s) /\ ~InReservedTable(s)

ReasonFor(s) ==
    IF s = <<>> THEN REASON_EMPTY
    ELSE IF ~MatchesPattern(s) THEN REASON_PATTERN
    ELSE REASON_KEYWORD

IllegalAt(y, i) ==
    LET e == y.entries[i]
    IN  IF e.k \in {"Theorem", "theorem"} /\ e.v.t = "str" /\ ~Legal(e.v.s) THEN {e.v.s}
        ELSE IF e.k \in {"Forall", "forall"} /\ e.v.t = "map"
        THEN {e.v.entries[j].k : j \in {n \in DOMAIN e.v.entries : ~Legal(e.v.entries[n].k)}}
        ELSE {}

IllegalEntries(y) == {i \in DOMAIN y.entries : IllegalAt(y, i) # {}}

Contains(message, token) == \E i \in DOMAIN message : message[i] = token

\* Entry i of the document is a field not given before, with a value of the
\* field's type.
EntryDeserializes(y, i) ==
    LET key == y.entries[i].k
        hit == {j \in DOMAIN TheoremDoc : key = TheoremDoc[j].key \/ key \in TheoremDoc[j].alias}
    IN  /\ hit # {}
        /\ \A j \in hit :
              /\ \A n \in 1..(i - 1) :
                    /\ y.entries[n].k # TheoremDoc[j].key
                    /\ y.entries[n].k \notin TheoremDoc[j].alias
              /\ deserialize(TheoremDoc[j].ty, y.entries[i].v).ok

DocOutcome(y) ==
    LET r == deserialize(TStruct("TheoremDoc"), y)
    IN  IF ~r.ok THEN Err(Deserialize(r.err)) ELSE validate_theorem_doc(r.val)

\* C8: for a text of N valid documents load returns Ok with exactly N
\* documents, the i-th being the one parsed from the i-th document of the text.
C8_CountAndOrder ==
    (result # Idle /\ \A i \in DOMAIN input : DocOutcome(input[i]).ok) =>
        /\ result.ok
        /\ Len(result.val) = Len(input)
        /\ \A i \in DOMAIN input :
              result.val[i] = deserialize(TStruct("TheoremDoc"), input[i]).val

\* Two different valid documents have been loaded from one text.
C8_Witness ==
    /\ result # Idle
    /\ Len(input) = 2
    /\ input[1] # input[2]
    /\ \A i \in DOMAIN input : DocOutcome(input[i]).ok
    /\ result.ok
    /\ result.val[1].theorem # result.val[2].theorem

\* C9: for a text with at least one invalid document load returns a single
\* error and no documents, and the error is the one of the first invalid
\* document in input order.
C9_BatchAllOrNothing ==
    (result # Idle /\ \E i \in DOMAIN input : ~DocOutcome(input[i]).ok) =>
        /\ ~result.ok
        /\ result = DocOutcome(input[Min({i \in DOMAIN input : ~DocOutcome(input[i]).ok})])

(***************************************************************************)
(* Properties of TheoremName and ForallVar (SpecNames).                    *)
(***************************************************************************)
C6_Valid ==
    /\ newtype # Idle => validate_identifier(newtype.s).ok
    /\ (result # Idle /\ result.ok) =>
          \A i \in DOMAIN result.val :
              /\ validate_identifier(result.val[i].theorem.s).ok
              /\ \A j \in DOMAIN result.val[i].forall :
                    validate_identifier(result.val[i].forall[j].k.s).ok

C6_Unchanged == newtype # Idle => newtype' = newtype

\* C6: every TheoremName and ForallVar that exists, built by new() or by
\* deserialization, wraps a string validate_identifier accepts; no operation on
\* the value changes the wrapped string; the theorem name and every Forall key
\* of a document returned by load is such a value.
C6_IdentifierTypeInvariant == []C6_Valid /\ [][C6_Unchanged]_vars

\* A ForallVar exists and has been read, and a document with Forall keys has
\* been returned by load.
C6_Witness ==
    /\ newtype # Idle
    /\ newtype.ty = "ForallVar"
    /\ out.op = "as_str"
    /\ out.ret = newtype.s
    /\ result # Idle
    /\ result.ok
    /\ Len(result.val[1].forall) = 2

(***************************************************************************)
(* Properties of the key aliases (SpecAlias).                              *)
(***************************************************************************)
\* C10: whichever of the twelve top-level keys are written in lowercase,
\* loading the text yields the same outcome as loading it with canonical keys,
\* and on success the same documents.
C10_AliasEquivalence ==
    (result # Idle /\ result2 # Idle) => result = result2

\* A text with all twelve keys in lowercase and its canonical twin have both
\* been loaded, successfully.
C10_Witness ==
    /\ result # Idle
    /\ result2 # Idle
    /\ input = <<LowercaseKeys(FullDoc, TopLevelKeys)>>
    /\ \A i \in DOMAIN input[1].entries : input[1].entries[i].k \notin TopLevelKeys
    /\ result.ok

\* A key that no reading of the schema has, somewhere in a YAML node read as
\* type ty.  An untagged enum has it when every variant does; the keys of a
\* free-form value are not schema keys.
RECURSIVE HasUnknownKey(_, _)
HasUnknownKey(ty, node) ==
    CASE ty.k = "struct" /\ node.t = "map" ->
            \E i \in DOMAIN node.entries :
                LET key == node.entries[i].k
                    hit == {fd \in Range(StructFields(ty.name)) :
                               key = fd.key \/ key \in fd.alias}
                IN  \/ hit = {}
                    \/ \E fd \in hit : HasUnknownKey(fd.ty, node.entries[i].v)
      [] ty.k = "Option" /\ node.t # "null" -> HasUnknownKey(ty.of, node)
      [] ty.k = "Vec" /\ node.t = "seq" ->
            \E i \in DOMAIN node.items : HasUnknownKey(ty.of, node.items[i])
      [] ty.k = "IndexMap" /\ node.t = "map" ->
            \E i \in DOMAIN node.entries : HasUnknownKey(ty.val, node.entries[i].v)
      [] ty.k = "untagged" /\ node.t = "map" ->
            \A j \in DOMAIN Variants(ty.name) : HasUnknownKey(Variants(ty.name)[j].ty, node)
      [] OTHER -> FALSE

\* C11: a key that is not part of the schema, at any nesting level of a
\* document of the text, makes load fail with a deserialization error; the key
\* is never ignored and no document is returned.
C11_UnknownKeyRejected ==
    (result # Idle /\ \E i \in DOMAIN input : HasUnknownKey(TStruct("TheoremDoc"), input[i])) =>
        /\ ~result.ok
        /\ result.err.kind = "Deserialize"

\* An unknown key inside the action call of a step nested in a maybe block has
\* been rejected.
C11_Witness ==
    /\ result # Idle
    /\ input = <<Unknown(11, FullDoc)>>
    /\ HasUnknownKey(TStruct("TheoremDoc"), input[1])
    /\ ~result.ok
    /\ result.err.kind = "Deserialize"

(***************************************************************************)
(* Properties of the expression classifier (SpecExpr).                     *)
(***************************************************************************)
\* The form of an expression text, read off its tokens: the leading keyword,
\* or the operator outside every bracket.
Depth(text, i) ==
    Cardinality({j \in 1..(i - 1) : text[j] \in {"(", "[", "{"}})
        - Cardinality({j \in 1..(i - 1) : text[j] \in {")", "]", "}"}})

TopTokens(text) == {text[i] : i \in {j \in 2..Len(text) : Depth(text, j) = 0}}

StatementLeads ==
    {"{", "for", "while", "loop", "let", "unsafe", "async", "const", "try", "return", "break",
     "continue", "yield"}

CompoundTokens == {"+=", "-=", "*=", "/=", "%=", "^=", "&=", "|=", "<<=", ">>="}

OperatorTokens ==
    {"+", "-", "*", "/", "%", "&&", "||", "^", "&", "|", "<<", ">>", "==", "<", "<=", "!=",
     ">=", ">"}

FormOf(text) ==
    IF text[1] \in StatementLeads THEN "statement"
    ELSE IF text[1] \in {"if", "match", "|"} THEN "expression"
    ELSE IF TopTokens(text) \cap ({"="} \cup CompoundTokens) # {} THEN "statement"
    ELSE IF text[1] \in {"!", "-", "*"} THEN "expression"
    ELSE IF TopTokens(text) \cap OperatorTokens # {} THEN "expression"
    ELSE IF Len(text) >= 3 /\ text[Len(text)] = ")" /\ text[2] \in {"(", "."} THEN "expression"
    ELSE "other"

\* C12: validate_rust_expr accepts conditionals, matches, closures, calls and
\* binary/unary operator expressions; rejects blocks, loops, let, unsafe/async/
\* const/try blocks, return/break/continue/yield, assignment and every compound
\* assignment with the fixed single-expression reason; and rejects text that
\* does not parse with the 'is not a valid Rust expression' reason.
C12_Classification ==
    (ret # Idle /\ call.fn = "validate_rust_expr") =>
        IF ~syn_parse_str(call.arg).ok
        THEN ~ret.ok /\ ret.err[1] = "is not a valid Rust expression"
        ELSE /\ FormOf(call.arg) = "expression" => ret.ok
             /\ FormOf(call.arg) = "statement" =>
                   /\ ~ret.ok
                   /\ ret.err = <<"must be a single expression, not a statement or block">>

\* The last compound assignment of the list has been rejected.
C12_Witness ==
    /\ ret # Idle
    /\ call.fn = "validate_rust_expr"
    /\ call.arg = <<"a", ">>=", "b">>
    /\ ~ret.ok
    /\ ret.err = <<"must be a single expression, not a statement or block">>

IndexedTails(field) ==
    { <<"because", " ", "must be non-empty after trimming">>,
      <<field, " ", "must be non-empty after trimming">>,
      <<field, " ">> \o validate_rust_expr(E_assign).err,
      <<field, " ">> \o validate_rust_expr(E_dangling).err }

\* The entries of a section of a placed document, none when it is left out.
SectionItems(node, keys) ==
    LET hit == {i \in DOMAIN node.entries : node.entries[i].k \in keys}
    IN  IF hit = {} THEN <<>> ELSE node.entries[Min(hit)].v.items

\* Where the value of a field of an entry stands in the text.
FieldAt(item, field) ==
    (CHOOSE e \in Range(item.entries) : e.k = field).v.at

\* The position a message about entry n of a section must be given.
ExpectedAt(node, sec, n, tail) ==
    FieldAt(SectionItems(node, sec.keys)[n], IF tail[1] = "because" THEN "because" ELSE sec.field)

\* The position of the theorem name, the fallback.
FallbackAt(node) ==
    (CHOOSE e \in Range(node.entries) : e.k \in {"Theorem", "theorem"}).v.at

\* Every position of an entry other than entry n of the section.
OtherEntriesAt(node, sec, n) ==
    LET items == SectionItems(node, sec.keys)
    IN  {FieldAt(items[m], f) : m \in DOMAIN items \ {n}, f \in {"because", sec.field}}

\* C14: for an indexed failure 'Prove assertion N: ...', 'Assume constraint
\* N: ...' or 'Witness N: ...' with 1 <= N <= the length of the section, the
\* locator returns the position of the N-th entry's because field when the
\* message concerns because and of its expression field otherwise, never the
\* fallback position and never the position of another entry; and the
\* diagnostic of a failed load has that position.
C14_IndexedLocation ==
    LET placed == PlaceDocuments(input)
        raws == deserialize_vec(TStruct("RawTheoremDoc"), placed, 1, <<>>)
    IN  raws.ok =>
          /\ \A i \in DOMAIN placed : \A sec \in IndexedSections :
                \A n \in DOMAIN SectionItems(placed[i], sec.keys) :
                  \A tail \in IndexedTails(sec.field) :
                    LET at == location_for_validation_reason(
                                  raws.val[i], Indexed(sec.prefix, n) \o tail)
                    IN  /\ at = ExpectedAt(placed[i], sec, n, tail)
                        /\ at # FallbackAt(placed[i])
                        /\ at \notin OtherEntriesAt(placed[i], sec, n)
          /\ (ret # Idle /\ ~ret.ok) =>
                LET reason == ret.err.reason
                    at == diagnostic(ret.err).v.location
                IN  \A i \in DOMAIN placed : \A sec \in IndexedSections :
                      \A n \in DOMAIN SectionItems(placed[i], sec.keys) :
                        \A tail \in IndexedTails(sec.field) :
                          ( /\ reason = Indexed(sec.prefix, n) \o tail
                            /\ \A j \in 1..(i - 1) :
                                  validate_theorem_doc(to_theorem_doc(raws.val[j])).ok
                            /\ ~validate_theorem_doc(to_theorem_doc(raws.val[i])).ok )
                          => ( /\ at.line = ExpectedAt(placed[i], sec, n, tail).line
                               /\ at.column = ExpectedAt(placed[i], sec, n, tail).column )

\* The load failed on the blank justification of the eleventh assertion of
\* the second document.
C14_Witness ==
    /\ input = <<FullDoc, LongDoc>>
    /\ ret # Idle /\ ~ret.ok
    /\ ret.err.reason = Indexed(<<"Prove assertion">>, 11)
                            \o <<"because", " ", "must be non-empty after trimming">>
    /\ diagnostic(ret.err).v.location.line
          = FieldAt(SectionItems(PlaceDocuments(input)[2], {"Prove"})[11], "because").line

(***************************************************************************)
(* Properties of the value type (SpecLoad).                                *)
(***************************************************************************)
RECURSIVE ContainsNull(_)
\* A null at any depth of a value.
ContainsNull(node) ==
    CASE node.t = "null" -> TRUE
      [] node.t = "seq" -> \E i \in DOMAIN node.items : ContainsNull(node.items[i])
      [] node.t = "map" -> \E i \in DOMAIN node.entries : ContainsNull(node.entries[i].v)
      [] OTHER -> FALSE

RECURSIVE NullInValue(_, _)
\* A null where the type expects a TheoremValue, at any depth of it.
NullInValue(ty, node) ==
    CASE ty.k = "TheoremValue" -> ContainsNull(node)
      [] ty.k = "Option" /\ ty.of.k = "TheoremValue" -> ContainsNull(node)
      [] ty.k = "Option" /\ ty.of.k # "TheoremValue" /\ node.t # "null" ->
            NullInValue(ty.of, node)
      [] ty.k = "struct" /\ node.t = "map" ->
            \E i \in DOMAIN node.entries :
                \E fd \in Range(StructFields(ty.name)) :
                    /\ node.entries[i].k = fd.key \/ node.entries[i].k \in fd.alias
                    /\ NullInValue(fd.ty, node.entries[i].v)
      [] ty.k = "Vec" /\ node.t = "seq" ->
            \E i \in DOMAIN node.items : NullInValue(ty.of, node.items[i])
      [] ty.k = "IndexMap" /\ node.t = "map" ->
            \E i \in DOMAIN node.entries : NullInValue(ty.val, node.entries[i].v)
      [] ty.k = "untagged" /\ node.t = "map" ->
            \E j \in DOMAIN Variants(ty.name) : NullInValue(Variants(ty.name)[j].ty, node)
      [] OTHER -> FALSE

\* C15: a null anywhere a value is expected (an action argument at any depth
\* inside sequences or mappings, or a placeholder backend slot of Evidence)
\* makes the load fail with the deserialization error 'null values are not
\* permitted'; it is never taken for an absent or default value.
C15_NullRejected ==
    (/\ result # Idle
     /\ input \in {<<d>> : d \in NullPool}
     /\ NullInValue(TStruct("TheoremDoc"), input[1]))
    => /\ ~result.ok
       /\ result.err.kind = "Deserialize"
       /\ result.err.message = <<"null values are not permitted in theorem documents">>

(***************************************************************************)
(* Properties of the value visitor (SpecValue).                            *)
(***************************************************************************)
\* The integer a call hands to the visitor.
IntegerOf(c) == IF c.fn = "deserialize" THEN c.arg.n ELSE c.arg
IsIntegerCall(c) == c.fn \in {"visit_i64", "visit_u64"} \/ c.arg.t = "int"

\* C16: every integer of the signed range decodes to Integer with exactly
\* that value, every unsigned integer above the largest signed one is
\* rejected with an 'out of range' error, and no integer is stored as a
\* different value.
C16_IntegerDecoding ==
    (ret # Idle /\ IsIntegerCall(call)) =>
        LET v == IntegerOf(call)
        IN  /\ (I64_MIN <= v /\ v <= I64_MAX) => ret = Ok([tv |-> "Integer", v |-> v])
            /\ v > I64_MAX =>
                  /\ ~ret.ok
                  /\ ret.err[Len(ret.err)] = " is out of range for i64"
                  /\ SubSeq(ret.err, 2, Len(ret.err) - 1) = usize_to_string(v)
            /\ ret.ok => ret.val.v = v

\* The largest unsigned integer was handed to visit_u64 and rejected.
C16_Witness ==
    /\ call.fn = "visit_u64" /\ call.arg = U64_MAX
    /\ ret # Idle /\ ~ret.ok

RECURSIVE HasDuplicateKey(_)
\* A mapping, at any depth of the value, with a key that occurs twice.
HasDuplicateKey(node) ==
    CASE node.t = "map" ->
            \/ \E i, j \in DOMAIN node.entries : i < j /\ node.entries[i].k = node.entries[j].k
            \/ \E i \in DOMAIN node.entries : HasDuplicateKey(node.entries[i].v)
      [] node.t = "seq" -> \E i \in DOMAIN node.items : HasDuplicateKey(node.items[i])
      [] OTHER -> FALSE

SrcHas(node, keys) == \E i \in DOMAIN node.entries : node.entries[i].k \in keys
SrcGet(node, keys) == (CHOOSE e \in Range(node.entries) : e.k \in keys).v
SrcItems(node, keys) == IF SrcHas(node, keys) THEN SrcGet(node, keys).items ELSE <<>>
SrcEntries(node, keys) == IF SrcHas(node, keys) THEN SrcGet(node, keys).entries ELSE <<>>

\* An action call equals its source.
CallEquals(ac, node) ==
    /\ ac.action = SrcGet(node, {"action"}).s
    /\ LET args == SrcGet(node, {"args"}).entries
       IN  /\ Len(ac.args) = Len(args)
           /\ \A k \in DOMAIN args :
                 /\ ac.args[k].k = args[k].k
                 /\ Ok(ac.args[k].v) = TheoremValue_deserialize(args[k].v)
    /\ ac.as_binding = IF SrcHas(node, {"as"}) THEN Some(SrcGet(node, {"as"}).s) ELSE None

RECURSIVE StepEquals(_, _)
\* A step equals its source, nested steps included.
StepEquals(step, node) ==
    CASE SrcHas(node, {"call"}) ->
            step.variant = "Call" /\ CallEquals(step.v.call, SrcGet(node, {"call"}))
      [] SrcHas(node, {"must"}) ->
            step.variant = "Must" /\ CallEquals(step.v.must, SrcGet(node, {"must"}))
      [] SrcHas(node, {"maybe"}) ->
            LET m == SrcGet(node, {"maybe"})
            IN  /\ step.variant = "Maybe"
                /\ step.v.maybe.because = SrcGet(m, {"because"}).s
                /\ Len(step.v.maybe.do_steps) = Len(SrcGet(m, {"do"}).items)
                /\ \A j \in DOMAIN step.v.maybe.do_steps :
                      StepEquals(step.v.maybe.do_steps[j], SrcGet(m, {"do"}).items[j])

\* A list of {expression, because} entries equals its source.
PairsEqual(list, items, field, key) ==
    /\ Len(list) = Len(items)
    /\ \A j \in DOMAIN items :
          /\ list[j][field] = SrcGet(items[j], {key}).s
          /\ list[j].because = SrcGet(items[j], {"because"}).s

StringsEqual(list, items) ==
    Len(list) = Len(items) /\ \A j \in DOMAIN items : list[j] = items[j].s

KaniEquals(kani, node) ==
    /\ kani.unwind = SrcGet(node, {"unwind"}).n
    /\ kani.expect = SrcGet(node, {"expect"}).s
    /\ kani.allow_vacuous = (SrcHas(node, {"allow_vacuous"})
                               /\ SrcGet(node, {"allow_vacuous"}).b)
    /\ kani.vacuity_because = IF SrcHas(node, {"vacuity_because"})
                               THEN Some(SrcGet(node, {"vacuity_because"}).s) ELSE None

SlotEquals(slot, node, key) ==
    IF SrcHas(node, {key})
    THEN slot.some /\ Ok(slot.v) = TheoremValue_deserialize(SrcGet(node, {key}))
    ELSE ~slot.some

\* Every field of a loaded document equals its source: same values, same
\* order, same lengths, and the defaults for what the source leaves out.
DocEquals(d, node) ==
    /\ d.schema = IF SrcHas(node, {"Schema", "schema"})
                  THEN Some(SrcGet(node, {"Schema", "schema"}).n) ELSE None
    /\ d.theorem.s = SrcGet(node, {"Theorem", "theorem"}).s
    /\ d.about = SrcGet(node, {"About", "about"}).s
    /\ StringsEqual(d.tags, SrcItems(node, {"Tags", "tags"}))
    /\ StringsEqual(d.given, SrcItems(node, {"Given", "given"}))
    /\ LET forall == SrcEntries(node, {"Forall", "forall"})
       IN  /\ Len(d.forall) = Len(forall)
           /\ \A j \in DOMAIN forall :
                 d.forall[j].k.s = forall[j].k /\ d.forall[j].v = forall[j].v.s
    /\ PairsEqual(d.assume, SrcItems(node, {"Assume", "assume"}), "expr", "expr")
    /\ PairsEqual(d.witness, SrcItems(node, {"Witness", "witness"}), "cover", "cover")
    /\ PairsEqual(d.prove, SrcItems(node, {"Prove", "prove"}), "assert_expr", "assert")
    /\ LET lets == SrcEntries(node, {"Let", "let"})
       IN  /\ Len(d.let_bindings) = Len(lets)
           /\ \A j \in DOMAIN lets :
                 /\ d.let_bindings[j].k = lets[j].k
                 /\ StepEquals(d.let_bindings[j].v, lets[j].v)
    /\ LET steps == SrcItems(node, {"Do", "do"})
       IN  /\ Len(d.do_steps) = Len(steps)
           /\ \A j \in DOMAIN steps : StepEquals(d.do_steps[j], steps[j])
    /\ LET evidence == SrcGet(node, {"Evidence", "evidence"})
       IN  /\ IF SrcHas(evidence, {"kani"})
              THEN /\ d.evidence.kani.some
                   /\ KaniEquals(d.evidence.kani.v, SrcGet(evidence, {"kani"}))
              ELSE ~d.evidence.kani.some
           /\ SlotEquals(d.evidence.verus, evidence, "verus")
           /\ SlotEquals(d.evidence.stateright, evidence, "stateright")

\* A text of well-formed documents that satisfy every rule of the validator;
\* a document with a null where a value is expected is not well-formed.
ValidText(text) ==
    \A i \in DOMAIN text :
        LET r == deserialize(TStruct("TheoremDoc"), text[i])
        IN  /\ ~NullInValue(TStruct("TheoremDoc"), text[i])
            /\ r.ok /\ Violated(r.val) = {}

LoadedEquals(r, text) ==
    /\ r.ok
    /\ Len(r.val) = Len(text)
    /\ \A i \in DOMAIN text : DocEquals(r.val[i], text[i])

\* C18: for a text of well-formed documents that satisfy every validation
\* rule the load returns Ok and every field of every returned document
\* equals its source value, list and mapping order preserved; the conversion
\* from the raw document copies every field, maps an absent allow_vacuous to
\* false, an absent Schema to none and an omitted section to an empty
\* collection.
C18_RoundTrip ==
    ValidText(input) =>
        /\ ret # Idle => LoadedEquals(ret, input)
        /\ result # Idle => LoadedEquals(result, input)
        /\ LET raws == deserialize_vec(TStruct("RawTheoremDoc"), PlaceDocuments(input), 1, <<>>)
           IN  /\ raws.ok
               /\ \A i \in DOMAIN input : DocEquals(to_theorem_doc(raws.val[i]), input[i])

\* A text of two valid documents, the first without its optional sections,
\* was loaded by both entry points.
C18_Witness ==
    /\ input = <<MinimalDoc(<<"T">>), FullDoc>>
    /\ ret # Idle /\ ret.ok
    /\ result # Idle /\ result.ok

(***************************************************************************)
(* Calls of the loader running at once (SpecPar).                          *)
(***************************************************************************)
\* C19: load calls running in parallel, in any interleaving, each return
\* exactly what the same call returns when run alone; a step of one call
\* leaves the locals of every other call as they are, and the reserved-word
\* table is never written.
C19_CallsIndependent ==
    /\ [](/\ keywords = RUST_KEYWORDS
          /\ \A t \in Tasks :
                threads[t].pc = "done" => threads[t].result = load_theorem_docs(threads[t].input))
    /\ [][/\ keywords' = keywords
          /\ \A t \in Tasks :
                threads'[t] # threads[t] =>
                    /\ threads'[t].input = threads[t].input
                    /\ \A u \in Tasks \ {t} : threads'[u] = threads[u]]_vars

\* Two calls on different texts have both returned, one Ok and one with an
\* error.
C19_Witness ==
    /\ threads # Idle
    /\ threads[1].pc = "done" /\ threads[2].pc = "done"
    /\ threads[1].input # threads[2].input
    /\ threads[1].result.ok /\ ~threads[2].result.ok

(***************************************************************************)
(* Order of the checks of the kani backend (SpecLoad).                     *)
(***************************************************************************)
\* The four sub-checks, numbered as the rule lists them: the unwind bound,
\* the witness list, the presence of the vacuity justification, its text.
KaniSubCheckFails(d, n) ==
    LET kani == d.evidence.kani.v
    IN  CASE n = 1 -> kani.unwind = 0
          [] n = 2 -> ~kani.allow_vacuous /\ d.witness = <<>>
          [] n = 3 -> kani.allow_vacuous /\ ~kani.vacuity_because.some
          [] n = 4 -> kani.vacuity_because.some /\ Blank(kani.vacuity_because.v)

KaniSubCheckReason(n) ==
    CASE n = 1 -> <<"Evidence.kani.unwind", " must be a positive integer (> 0)">>
      [] n = 2 -> <<"Witness", " ",
            "section must contain at least one witness when allow_vacuous is false (the default)">>
      [] n = 3 -> <<"vacuity_because is required when allow_vacuous is true">>
      [] n = 4 -> <<"Evidence.kani.vacuity_because must be non-empty", " after trimming">>

\* The first sub-check of an order that fails on the document, 0 if none.
FirstFailingSubCheck(d, order) ==
    LET failing == {i \in DOMAIN order : KaniSubCheckFails(d, order[i])}
    IN  IF failing = {} THEN 0 ELSE order[Min(failing)]

\* The validator has run on a document with a kani backend that passes every
\* check before the evidence check.
KaniChecked ==
    /\ vresult # Idle
    /\ doc.evidence.kani.some
    /\ Violated(doc) \subseteq {8}

\* C20 as stated: the sub-checks are applied in the listed order (unwind;
\* witness list non-empty when vacuity is not permitted; justification
\* present when vacuity is permitted; justification non-blank when present)
\* and the first failing one in that order is reported.
C20_ListedOrder ==
    KaniChecked =>
        LET n == FirstFailingSubCheck(doc, <<1, 2, 3, 4>>)
        IN  IF n = 0 THEN vresult.ok
            ELSE ~vresult.ok /\ vresult.err.reason = KaniSubCheckReason(n)

\* C20 amended: the sub-checks are applied in the order unwind, justification
\* present when vacuity is permitted, justification non-blank when present,
\* witness list non-empty when vacuity is not permitted, and the first
\* failing one in that order is reported.
C20_CodeOrder ==
    KaniChecked =>
        LET n == FirstFailingSubCheck(doc, <<1, 3, 4, 2>>)
        IN  IF n = 0 THEN vresult.ok
            ELSE ~vresult.ok /\ vresult.err.reason = KaniSubCheckReason(n)

\* A document with allow_vacuous false, no witness and a blank
\* vacuity_because was validated, and the blank justification was reported.
C20_Witness ==
    /\ KaniChecked
    /\ ~doc.evidence.kani.v.allow_vacuous
    /\ doc.witness = <<>>
    /\ KaniSubCheckFails(doc, 4)
    /\ ~vresult.ok /\ vresult.err.reason = KaniSubCheckReason(4)

(***************************************************************************)
(* Properties of the field rules (SpecRules).                              *)
(***************************************************************************)
\* The three checked lists in the order of the claim, each entry as its
\* expression field and its justification field.
CheckedLists(d) ==
    << [section |-> "Prove assertion", label |-> "assert",
        items |-> [i \in DOMAIN d.prove |-> <<d.prove[i].assert_expr, d.prove[i].because>>]],
       [section |-> "Assume constraint", label |-> "expr",
        items |-> [i \in DOMAIN d.assume |-> <<d.assume[i].expr, d.assume[i].because>>]],
       [section |-> "Witness", label |-> "cover",
        items |-> [i \in DOMAIN d.witness |-> <<d.witness[i].cover, d.witness[i].because>>]] >>

\* The blank fields of a document: list, entry, field.
BlankSpots(d) ==
    {spot \in (1..3) \X (1..MaxLists + 1) \X (1..2) :
        /\ spot[2] \in DOMAIN CheckedLists(d)[spot[1]].items
        /\ Blank(CheckedLists(d)[spot[1]].items[spot[2]][spot[3]])}

SpotBefore(a, b) ==
    \/ a[1] < b[1]
    \/ a[1] = b[1] /\ a[2] < b[2]
    \/ a[1] = b[1] /\ a[2] = b[2] /\ a[3] <= b[3]

FirstBlankSpot(d) == CHOOSE a \in BlankSpots(d) : \A b \in BlankSpots(d) : SpotBefore(a, b)

DecimalDigits == <<"1", "2", "3", "4", "5", "6", "7", "8", "9">>

BlankReason(d, spot) ==
    << CheckedLists(d)[spot[1]].section, " ", DecimalDigits[spot[2]], ":", " ",
       IF spot[3] = 1 THEN CheckedLists(d)[spot[1]].label ELSE "because", " ",
       "must be non-empty after trimming" >>

\* The rules that validate_theorem_doc checks before the field rules pass.
ReachesFieldRules(d) == ~Blank(d.about) /\ Len(d.prove) > 0

IsBlankFieldReason(reason) ==
    /\ Len(reason) = 8
    /\ reason[1] \in {"Prove assertion", "Assume constraint", "Witness"}
    /\ reason[8] = "must be non-empty after trimming"

\* C21: the non-blank check scans the proof obligations, then the
\* assumptions, then the witnesses, each list in order and in an entry the
\* expression field before the justification, and reports the first blank
\* field as '<section> <i>: <field> must be non-empty after trimming' with i
\* the 1-based position of the entry, never 0 and never beyond the list.
C21_FirstBlankField ==
    (doc # Idle /\ vresult # Idle /\ ReachesFieldRules(doc)) =>
        /\ BlankSpots(doc) # {} =>
              /\ ~vresult.ok
              /\ vresult.err.kind = "ValidationFailed"
              /\ vresult.err.reason = BlankReason(doc, FirstBlankSpot(doc))
        /\ (~vresult.ok /\ IsBlankFieldReason(vresult.err.reason)) =>
              /\ BlankSpots(doc) # {}
              /\ \E n \in 1..3 :
                    /\ CheckedLists(doc)[n].section = vresult.err.reason[1]
                    /\ DigitValue(vresult.err.reason[3]) >= 1
                    /\ DigitValue(vresult.err.reason[3]) <= Len(CheckedLists(doc)[n].items)

\* A document validated whose first blank field is the justification of the
\* second proof obligation, with blank fields in the other two lists as well.
C21_Witness ==
    /\ doc # Idle /\ vresult # Idle
    /\ ReachesFieldRules(doc)
    /\ BlankSpots(doc) # {}
    /\ FirstBlankSpot(doc) = <<1, 2, 2>>
    /\ \E a, b \in BlankSpots(doc) : a[1] = 2 /\ b[1] = 3
    /\ ~vresult.ok

\* The violations of a step tree, each with the positions that lead to it from
\* the top-level list down to the violating step.
RECURSIVE StepViolations(_)
StepViolations(steps) ==
    UNION { IF steps[i].variant = "Maybe"
            THEN (IF Blank(steps[i].v.maybe.because) THEN {<<(<<i>>), "because">>} ELSE {})
                 \cup (IF steps[i].v.maybe.do_steps = <<>> THEN {<<(<<i>>), "empty">>} ELSE {})
                 \cup {<<(<<i>>) \o v[1], v[2]>> : v \in StepViolations(steps[i].v.maybe.do_steps)}
            ELSE (IF Blank(ActionOf(steps[i])) THEN {<<(<<i>>), "action">>} ELSE {})
          : i \in DOMAIN steps }

\* Depth-first, left-to-right: a step comes before the steps below it and
\* before the steps to its right.
RECURSIVE PathBefore(_, _)
PathBefore(p, q) ==
    IF p = <<>> THEN q # <<>>
    ELSE IF q = <<>> THEN FALSE
    ELSE IF p[1] # q[1] THEN p[1] < q[1]
    ELSE PathBefore(Tail(p), Tail(q))

ViolationBefore(a, b) ==
    \/ PathBefore(a[1], b[1])
    \/ a[1] = b[1] /\ (a[2] = b[2] \/ a[2] = "because")

FirstViolation(steps) ==
    CHOOSE a \in StepViolations(steps) : \A b \in StepViolations(steps) : ViolationBefore(a, b)

RECURSIVE PathLabels(_, _)
PathLabels(path, head) ==
    IF path = <<>> THEN <<>>
    ELSE << head, " ", DecimalDigits[path[1]], ":", " " >> \o PathLabels(Tail(path), "maybe.do step")

ViolationText(kind) ==
    CASE kind = "action" -> <<"action", " ", "must be non-empty after trimming">>
      [] kind = "because" -> <<"maybe.because", " ", "must be non-empty after trimming">>
      [] kind = "empty" -> <<"maybe.do must contain at least one step">>

PositionLabels(message) ==
    Cardinality({i \in DOMAIN message : message[i] \in {"Do step", "maybe.do step"}})

\* The rules that validate_theorem_doc checks before the step rules pass.
ReachesStepRules(d) == \A rule \in 1..5 : ~Violates(d, rule)

\* C22: validate_step_list visits the step tree depth-first and left to
\* right, checks a maybe block's justification and then its nested list
\* before its children, and returns the first violation in that order with
\* the chain of 1-based positions from the top-level step down to the
\* violating step: a violation at nesting depth d carries d + 1 positions.
C22_StepTreeOrder ==
    (doc # Idle /\ vresult # Idle /\ ReachesStepRules(doc)) =>
        /\ validate_step_list(doc.do_steps, <<"Do step">>).ok <=> StepViolations(doc.do_steps) = {}
        /\ StepViolations(doc.do_steps) # {} =>
              LET first == FirstViolation(doc.do_steps)
                  message == validate_step_list(doc.do_steps, <<"Do step">>).err
              IN  /\ message = PathLabels(first[1], "Do step") \o ViolationText(first[2])
                  /\ PositionLabels(message) = Len(first[1])
                  /\ ~vresult.ok
                  /\ vresult.err.reason = message

\* A tree validated with a violation three positions deep and another one in
\* a later top-level step: the deeper, earlier one is returned.
C22_Witness ==
    /\ doc # Idle /\ vresult # Idle
    /\ ReachesStepRules(doc)
    /\ Cardinality(StepViolations(doc.do_steps)) = 2
    /\ Len(FirstViolation(doc.do_steps)[1]) = 3
    /\ \E b \in StepViolations(doc.do_steps) : b[1][1] = 3
    /\ ~vresult.ok
    /\ PositionLabels(vresult.err.reason) = 3

(***************************************************************************)
(* Properties of the locator (SpecLocate).                                 *)
(***************************************************************************)
RECURSIVE AllPlaces(_)
\* Every position of a placed node and of the nodes below it.
AllPlaces(node) ==
    {node.at} \cup
        CASE node.t = "map" -> UNION {AllPlaces(node.entries[i].v) : i \in DOMAIN node.entries}
          [] node.t = "seq" -> UNION {AllPlaces(node.items[i]) : i \in DOMAIN node.items}
          [] OTHER -> {}

Decimal(n) ==
    IF n < 10 THEN <<DecimalDigits[n]>>
    ELSE <<DecimalDigits[n \div 10], IF n % 10 = 0 THEN "0" ELSE DecimalDigits[n % 10]>>

\* The reason reads '<prefix> N: ...' with N the numeral of n.
NamesEntry(reason, prefix, n) ==
    /\ Len(reason) >= 3
    /\ reason[1] = prefix[1] /\ reason[2] = " "
    /\ \E c \in 3..Len(reason) :
          /\ reason[c] = ":"
          /\ \A i \in 3..(c - 1) : reason[i] # ":"
          /\ trim(SubSeq(reason, 3, c - 1)) = Decimal(n)

\* The reasons the locator has a mapping for on a document: the About
\* failure, an indexed failure that names an entry the section has, and a
\* kani failure whose field stands in the document.
SpecificMapping(node, reason) ==
    \/ reason # <<>> /\ reason[1] = "About must be non-empty"
    \/ \E sec \in IndexedSections : \E n \in DOMAIN SectionItems(node, sec.keys) :
          NamesEntry(reason, sec.prefix, n)
    \/ /\ reason # <<>>
       /\ SrcHas(node, {"Evidence", "evidence"})
       /\ SrcHas(SrcGet(node, {"Evidence", "evidence"}), {"kani"})
       /\ LET kani == SrcGet(SrcGet(node, {"Evidence", "evidence"}), {"kani"})
          IN  \/ reason[1] = "Evidence.kani.unwind"
              \/ /\ reason[1] = "vacuity_because is required when allow_vacuous is true"
                 /\ SrcHas(kani, {"allow_vacuous"})
              \/ /\ reason[1] = "Evidence.kani.vacuity_because must be non-empty"
                 /\ SrcHas(kani, {"vacuity_because"})

\* An indexed reason whose index is 0 or beyond the section.
OutOfRangeIndex(node, reason) ==
    \E sec \in IndexedSections :
        \E n \in {0, 1, 2, 3, 11, 12} \ DOMAIN SectionItems(node, sec.keys) :
            \E tail \in {NonEmptyTail("because"), NonEmptyTail(sec.field)} :
                reason = Indexed(sec.prefix, n) \o tail

\* C23: the locator returns a location for every reason, and the location of
\* the name field whenever no specific mapping applies: for let-binding and
\* Do-step failures, the empty-Prove failure, the missing-backend failure,
\* the missing-witness failure and an indexed message whose index is 0 or
\* exceeds the list.
C23_LocatorFallback ==
    ret # Idle =>
        LET node == PlaceDocuments(input)[1]
        IN  /\ ret \in AllPlaces(node)
            /\ ret.line >= 1 /\ ret.column >= 1
            /\ ~SpecificMapping(node, call.arg) => ret = FallbackAt(node)
            /\ call.arg \in FallbackReasons => ret = FallbackAt(node)
            /\ OutOfRangeIndex(node, call.arg) => ret = FallbackAt(node)

\* The locator was asked about the missing-witness failure on a document that
\* has a first witness.
C23_Witness ==
    /\ ret # Idle
    /\ call.arg \in FallbackReasons
    /\ Len(call.arg) = 3 /\ call.arg[1] = "Witness"
    /\ SectionItems(PlaceDocuments(input)[1], {"Witness"}) # <<>>
    /\ ret = FallbackAt(PlaceDocuments(input)[1])

(***************************************************************************)
(* Properties of the evidence rules (SpecLoad).                            *)
(***************************************************************************)
MissingBackendReason ==
    <<"Evidence section must specify at least one backend (kani, verus, or stateright)">>

\* C24: a document with no backend is rejected with the 'must specify at
\* least one backend' failure; the unwind, vacuity and witness sub-checks
\* apply only when the kani backend is present; a document with only a
\* placeholder backend that satisfies rules 1 to 6 is accepted even when its
\* witness list is empty.
C24_EvidenceRules ==
    (doc # Idle /\ vresult # Idle /\ \A rule \in 1..6 : ~Violates(doc, rule)) =>
        LET kani == doc.evidence.kani.some
            placeholder == doc.evidence.verus.some \/ doc.evidence.stateright.some
        IN  /\ (~kani /\ ~placeholder) =>
                  /\ ~vresult.ok
                  /\ vresult.err.kind = "ValidationFailed"
                  /\ vresult.err.reason = MissingBackendReason
            /\ (~kani /\ placeholder) => vresult.ok
            /\ (~vresult.ok /\ vresult.err.reason # MissingBackendReason) =>
                  kani /\ BadKani(doc)
            /\ (kani /\ ~BadKani(doc)) => vresult.ok

\* A document with only the verus backend and no witness was validated and
\* accepted.
C24_Witness ==
    /\ doc # Idle /\ vresult # Idle
    /\ ~doc.evidence.kani.some /\ doc.evidence.verus.some
    /\ doc.witness = <<>>
    /\ vresult.ok

(***************************************************************************)
(* Properties of the Let section (SpecRules).                              *)
(***************************************************************************)
\* A Let entry of the source is of one of the two forms: a mapping with the
\* single key call or the single key must.
CallOrMust(node) ==
    /\ node.t = "map"
    /\ Len(node.entries) = 1
    /\ node.entries[1].k \in {"call", "must"}

LetEntries(node) == SrcEntries(node, {"Let", "let"})

\* C25: a Let entry is exactly one of call or must: an entry written as a
\* maybe block, or carrying any key other than exactly one of call and must,
\* is rejected at deserialization, and no document returned by load contains
\* a conditional let binding.
C25_LetCallOrMust ==
    result # Idle =>
        /\ (\E i \in DOMAIN input : \E j \in DOMAIN LetEntries(input[i]) :
                ~CallOrMust(LetEntries(input[i])[j].v)) =>
              /\ ~result.ok
              /\ result.err.kind = "Deserialize"
        /\ result.ok =>
              \A i \in DOMAIN result.val : \A j \in DOMAIN result.val[i].let_bindings :
                  /\ result.val[i].let_bindings[j].v.variant \in {"Call", "Must"}
                  /\ result.val[i].let_bindings[j].v.variant
                        = (IF LetEntries(input[i])[j].v.entries[1].k = "call"
                           THEN "Call" ELSE "Must")

\* A text whose first Let entry is a call and whose second is a maybe block
\* was loaded and rejected.
C25_Witness ==
    /\ result # Idle
    /\ Len(LetEntries(input[1])) = 2
    /\ CallOrMust(LetEntries(input[1])[1].v)
    /\ LetEntries(input[1])[2].v.t = "map"
    /\ Len(LetEntries(input[1])[2].v.entries) = 1
    /\ LetEntries(input[1])[2].v.entries[1].k = "maybe"
    /\ ~result.ok
    /\ result.err.kind = "Deserialize"

(***************************************************************************)
(* Termination (SpecTermFair).                                             *)
(***************************************************************************)
Max(S) == CHOOSE m \in S : \A n \in S : m >= n

RECURSIVE Nesting(_)
\* The largest number of maybe blocks around a place of a step tree.
Nesting(steps) ==
    Max({0} \cup {1 + Nesting(steps[i].v.maybe.do_steps) :
                    i \in {j \in DOMAIN steps : steps[j].variant = "Maybe"}})

RECURSIVE StepPositions(_)
\* Every step of a tree, named by the positions that lead to it.
StepPositions(steps) ==
    UNION { {<<i>>} \cup
                (IF steps[i].variant = "Maybe"
                 THEN {<<i>> \o below : below \in StepPositions(steps[i].v.maybe.do_steps)}
                 ELSE {})
            : i \in DOMAIN steps }

\* The tree handed to validate_step_list.
CalledTree == from_multiple(input).val[1].do_steps

\* The one outcome of a finished call: the documents, or one error of the
\* three shapes; it is what the function returns on the input.
OneOutcome ==
    IF call.fn = "load_theorem_docs"
    THEN /\ ret = load_theorem_docs(input)
         /\ IF ret.ok THEN Len(ret.val) = Len(input)
            ELSE ret.err.kind \in {"Deserialize", "InvalidIdentifier", "ValidationFailed"}
    ELSE ret = validate_step_list(CalledTree, <<"Do step">>)

\* No step is entered twice, the recursion is never deeper than the nesting
\* of the tree, and a tree without a violation is walked whole.
WalkBounds ==
    call.fn = "validate_step_list" =>
        /\ call.revisited = {}
        /\ call.visited \subseteq StepPositions(CalledTree)
        /\ call.depth <= Nesting(CalledTree)
        /\ Len(call.stack) <= Nesting(CalledTree) + 1
        /\ (ret # Idle /\ ret.ok) =>
              /\ call.depth = Nesting(CalledTree)
              /\ call.visited = StepPositions(CalledTree)

\* C26 as stated: when step validation has finished, its recursion depth
\* equals the maximum maybe-nesting depth of the tree.
C26_DepthEqualsNesting ==
    (call # Idle /\ call.fn = "validate_step_list" /\ ret # Idle) =>
        call.depth = Nesting(CalledTree)

\* C26: every call finishes with exactly one outcome, the documents or one
\* error of the three shapes; step validation finishes on every tree, enters
\* each step at most once, and its recursion depth never exceeds the maximum
\* maybe-nesting depth and equals it when the tree has no violation.
C26_Termination ==
    /\ <>(ret # Idle)
    /\ [](ret # Idle => OneOutcome)
    /\ [][ret # Idle => ret' = ret]_vars
    /\ []WalkBounds

\* Step validation has finished on a tree three maybe blocks deep after
\* entering each of its eleven steps.
C26_Witness ==
    /\ call # Idle /\ call.fn = "validate_step_list"
    /\ ret # Idle /\ ret.ok
    /\ call.depth = 3
    /\ Cardinality(call.visited) = 11

(***************************************************************************)
(* Root-only classification of expressions (SpecExpr).                     *)
(***************************************************************************)
\* A token that opens a rejected form stands inside brackets, or in the body
\* of a closure.
NestsStatement(text) ==
    \E i \in 2..Len(text) :
        /\ text[i] \in StatementLeads \cup {"="} \cup CompoundTokens
        /\ Depth(text, i) >= 1 \/ text[1] = "|"

\* C27: classification looks only at the root node of the parsed expression:
\* a text that nests a block, binding, loop or assignment inside an accepted
\* form (parentheses, a closure, a conditional, a match, a call) is accepted,
\* and a text is rejected with the single-expression reason only when its
\* outermost form is a rejected one.
C27_RootOnly ==
    (ret # Idle /\ call.fn = "validate_rust_expr") =>
        /\ (NestsStatement(call.arg) /\ FormOf(call.arg) # "statement"
                /\ syn_parse_str(call.arg).ok) => ret = Ok(Unit)
        /\ (~ret.ok /\ ret.err = <<"must be a single expression, not a statement or block">>)
              => FormOf(call.arg) = "statement"

\* The parenthesised assignment '(x = 5)' has been accepted.
C27_Witness ==
    /\ ret = Ok(Unit)
    /\ call.fn = "validate_rust_expr"
    /\ call.arg = <<"(", "x", "=", "5", ")">>
    /\ NestsStatement(call.arg)
    /\ "Assign" \in syn_parse_str(call.arg).val.inner


(***************************************************************************)
(* Order of the two stages across the documents of a text (SpecLoad).      *)
(***************************************************************************)
\* The outcome of loading the i-th document of the input as a text of its own.
Alone(i) == load_theorem_docs(<<input[i]>>)

FailsStructurally(i) == ~Alone(i).ok /\ Alone(i).err.kind = "Deserialize"

FailsSemantically(i) == ~Alone(i).ok /\ Alone(i).err.kind = "ValidationFailed"

VacuityRequired == <<"vacuity_because is required when allow_vacuous is true">>

\* Where the value of a field of the kani mapping stands in the text.
KaniFieldAt(node, field) ==
    FieldAt(SrcGet(SrcGet(node, {"Evidence"}), {"kani"}), field)

\* C29: whenever validation of a document fails with 'vacuity_because is
\* required when allow_vacuous is true', the document's source has the
\* allow_vacuous field, the locator gives the position of that field and not
\* the position of the theorem name, and the diagnostic of a load that fails
\* with this reason has that position.
C29_VacuityAtAllowVacuous ==
    LET placed == PlaceDocuments(input)
        raws == deserialize_vec(TStruct("RawTheoremDoc"), placed, 1, <<>>)
    IN  raws.ok =>
          \A i \in DOMAIN placed :
            LET r == validate_theorem_doc(to_theorem_doc(raws.val[i]))
            IN  (~r.ok /\ r.err.reason = VacuityRequired) =>
                  /\ SrcHas(placed[i], {"Evidence"})
                  /\ SrcHas(SrcGet(placed[i], {"Evidence"}), {"kani"})
                  /\ SrcHas(SrcGet(SrcGet(placed[i], {"Evidence"}), {"kani"}),
                            {"allow_vacuous"})
                  /\ location_for_validation_reason(raws.val[i], VacuityRequired)
                        = KaniFieldAt(placed[i], "allow_vacuous")
                  /\ location_for_validation_reason(raws.val[i], VacuityRequired)
                        # FallbackAt(placed[i])
                  /\ ( /\ ret # Idle /\ ~ret.ok
                       /\ ret.err.kind = "ValidationFailed"
                       /\ ret.err.reason = VacuityRequired
                       /\ \A j \in 1..(i - 1) :
                             validate_theorem_doc(to_theorem_doc(raws.val[j])).ok )
                      => /\ diagnostic(ret.err).v.location.line
                               = KaniFieldAt(placed[i], "allow_vacuous").line
                         /\ diagnostic(ret.err).v.location.column
                               = KaniFieldAt(placed[i], "allow_vacuous").column

\* A load has failed because allow_vacuous is true without a justification,
\* and its diagnostic stands below the line of the theorem name.
C29_Witness ==
    /\ ret # Idle /\ ~ret.ok
    /\ ret.err.kind = "ValidationFailed"
    /\ ret.err.reason = VacuityRequired
    /\ diagnostic(ret.err).v.location.line
          = KaniFieldAt(PlaceDocuments(input)[1], "allow_vacuous").line
    /\ diagnostic(ret.err).v.location.line > FallbackAt(PlaceDocuments(input)[1]).line


(***************************************************************************)
(* Blank expressions and classification (SpecRules).                       *)
(***************************************************************************)
\* The expression texts of a document, and its justifications.
ExpressionsOf(d) ==
    {d.assume[i].expr : i \in DOMAIN d.assume}
        \cup {d.prove[i].assert_expr : i \in DOMAIN d.prove}
        \cup {d.witness[i].cover : i \in DOMAIN d.witness}

JustificationsOf(d) ==
    {d.assume[i].because : i \in DOMAIN d.assume}
        \cup {d.prove[i].because : i \in DOMAIN d.prove}
        \cup {d.witness[i].because : i \in DOMAIN d.witness}

\* The reason comes from the classification of an expression.
FromClassification(reason) ==
    \E i \in DOMAIN reason :
        reason[i] \in {"is not a valid Rust expression",
                       "must be a single expression, not a statement or block"}

\* C30: a document with a blank expression never fails with a reason from
\* expression classification: with About non-blank and Prove non-empty it
\* fails with a 'must be non-empty after trimming' reason; and a document
\* without blank fields fails classification exactly when the trimmed text of
\* one of its expressions is a rejected form or does not parse.
C30_BlankNeverClassified ==
    (vresult # Idle /\ doc # Idle) =>
        /\ (\E e \in ExpressionsOf(doc) : trim(e) = <<>>) =>
              /\ ~vresult.ok
              /\ ~FromClassification(vresult.err.reason)
              /\ (trim(doc.about) # <<>> /\ Len(doc.prove) > 0) =>
                    vresult.err.reason[Len(vresult.err.reason)]
                        = "must be non-empty after trimming"
        /\ ( /\ \A e \in ExpressionsOf(doc) \cup JustificationsOf(doc) : trim(e) # <<>>
             /\ trim(doc.about) # <<>> /\ Len(doc.prove) > 0 ) =>
              ( (~vresult.ok /\ FromClassification(vresult.err.reason))
                  <=> \E e \in ExpressionsOf(doc) :
                        \/ ~syn_parse_str(trim(e)).ok
                        \/ FormOf(trim(e)) = "statement" )

\* A document whose assumption is a padded assignment and whose witness has
\* an empty expression has been rejected for the empty expression.
C30_Witness ==
    /\ vresult # Idle /\ doc # Idle
    /\ ~vresult.ok
    /\ \E i \in DOMAIN doc.assume : doc.assume[i].expr = E_padded_assign
    /\ \E i \in DOMAIN doc.witness : doc.witness[i].cover = <<>>
    /\ \A i \in DOMAIN doc.prove : trim(doc.prove[i].assert_expr) # <<>>
                                      /\ trim(doc.prove[i].because) # <<>>
    /\ \A i \in DOMAIN doc.assume : trim(doc.assume[i].because) # <<>>
    /\ vresult.err.reason = Indexed(<<"Witness">>, 1)
                                \o <<"cover", " ", "must be non-empty after trimming">>


====
